---- MODULE Spec2Model ----
(***************************************************************************)
(* Verification model of the Criemos order viewer: the Address Override    *)
(* Store (utils/addressStorage.ts), the shipping-preparation page, the     *)
(* label page and the orders list with its bulk-fulfill operation.         *)
(***************************************************************************)
EXTENDS Integers, Sequences, FiniteSets, TLC

(***************************************************************************)
(* Bounds of the model.                                                    *)
(***************************************************************************)
MaxOrders == 2
MaxTime == 2

OrderIds == 1..MaxOrders

(***************************************************************************)
(* JavaScript values.  Every value is a record tagged by its type, so that *)
(* any two values can be compared.  A string that holds the JSON           *)
(* serialisation of a value v is the string value with field json = v;     *)
(* any other string carries its characters in field v.                     *)
(***************************************************************************)
Undefined == [t |-> "undefined"]
Null == [t |-> "null"]
Str(s) == [t |-> "string", v |-> s]
Bool(b) == [t |-> "boolean", v |-> b]
Obj(f) == [t |-> "object", p |-> f]
Throw(e) == [t |-> "throw", e |-> e]
JsonText(v) == [t |-> "string", json |-> v]

IsThrow(v) == v.t = "throw"

\* JavaScript truthiness: undefined, null, false and the empty string are falsy.
Truthy(v) ==
    CASE v.t \in {"undefined", "null"} -> FALSE
      [] v.t = "string" -> ~("v" \in DOMAIN v /\ v.v = "")
      [] v.t = "boolean" -> v.v
      [] OTHER -> TRUE

\* a || b
Or(a, b) == IF Truthy(a) THEN a ELSE b

\* v.name: a TypeError on undefined and null, undefined for a missing property.
Prop(v, name) ==
    CASE v.t \in {"undefined", "null"} -> Throw("TypeError")
      [] v.t = "object" -> IF name \in DOMAIN v.p THEN v.p[name] ELSE Undefined
      [] OTHER -> Undefined

\* v?.name
OptProp(v, name) == IF v.t \in {"undefined", "null"} THEN Undefined ELSE Prop(v, name)

\* Two values a reader cannot tell apart: a property holding undefined reads
\* the same as a property that is missing.
RECURSIVE SameValue(_, _)
SameValue(a, b) ==
    IF a.t = "object" /\ b.t = "object"
    THEN \A k \in DOMAIN a.p \cup DOMAIN b.p : SameValue(Prop(a, k), Prop(b, k))
    ELSE a = b

\* JSON.stringify: properties whose value is undefined are left out.
RECURSIVE Serialize(_)
Serialize(v) ==
    IF v.t = "object"
    THEN Obj([k \in {q \in DOMAIN v.p : v.p[q] # Undefined} |-> Serialize(v.p[k])])
    ELSE v

JSONstringify(v) == JsonText(Serialize(v))

\* JSON.parse: a SyntaxError on a text that is not JSON (the empty string too).
JSONparse(text) ==
    IF "json" \in DOMAIN text THEN text.json ELSE Throw("SyntaxError")

\* new Date().toISOString() at clock value n
toISOString(n) == "T" \o ToString(n)

(***************************************************************************)
(* Addresses.                                                              *)
(***************************************************************************)
AddressFields ==
    {"firstName", "lastName", "address1", "address2", "city", "province", "zip", "phone"}

\* The addresses the external order source can hold for an order.
ShopifyAna ==
    Obj([firstName |-> Str("Ana"), lastName |-> Str("Rojas"), address1 |-> Str("Calle 1"),
         address2 |-> Null, city |-> Str("Santiago"), province |-> Str("RM"),
         zip |-> Str("8320000"), phone |-> Null])
ShopifyNoName ==
    Obj([firstName |-> Null, lastName |-> Null, address1 |-> Str("Av. Mar 22"),
         address2 |-> Str("Depto 5"), city |-> Str("Talca"), province |-> Str("Maule"),
         zip |-> Str("3460000"), phone |-> Str("+569")])
ShippingAddresses == {Null, ShopifyAna, ShopifyNoName}

\* toEditedAddress (the same function in PreparacionEnvio.tsx and ImpresionEtiquetas.tsx)
toEditedAddress(shopifyAddress) ==
    IF ~Truthy(shopifyAddress) THEN Null
    ELSE Obj([k \in AddressFields |-> Or(Prop(shopifyAddress, k), Str(""))])

\* Edited addresses handed to the store; EditedB leaves its optional fields undefined.
EditedA ==
    Obj([firstName |-> Str("Ana"), lastName |-> Str("Rojas"), address1 |-> Str("Calle 10"),
         address2 |-> Str(""), city |-> Str("Santiago"), province |-> Str("RM"),
         zip |-> Str("8320000"), phone |-> Str(""), notes |-> Str("timbre 2")])
EditedB ==
    Obj([firstName |-> Str("Eva"), lastName |-> Str(""), address1 |-> Str("Pasaje 3"),
         address2 |-> Undefined, city |-> Str("Talca"), province |-> Str("Maule"),
         zip |-> Str("3460000"), phone |-> Undefined, notes |-> Undefined])
EditedAddresses == {EditedA, EditedB}

\* The snapshots a caller of the store can pass as originalAddress.
OriginalAddresses == {toEditedAddress(a) : a \in ShippingAddresses \ {Null}}

(***************************************************************************)
(* localStorage: a map from key strings to string values.                  *)
(***************************************************************************)
getItem(ls, key) == IF key \in DOMAIN ls THEN ls[key] ELSE Null

setItem(ls, key, value) == [k \in DOMAIN ls \cup {key} |-> IF k = key THEN value ELSE ls[k]]

removeItem(ls, key) == [k \in DOMAIN ls \ {key} |-> ls[k]]

(***************************************************************************)
(* utils/addressStorage.ts                                                 *)
(***************************************************************************)
STORAGE_PREFIX == "order_address_"

StorageKey(orderId) == STORAGE_PREFIX \o ToString(orderId)

saveEditedAddress(ls, orderId, editedAddress, originalAddress, clock) ==
    LET data == Obj([address |-> editedAddress,
                     timestamp |-> Str(toISOString(clock)),
                     originalAddress |-> originalAddress])
    IN  setItem(ls, StorageKey(orderId), JSONstringify(data))

\* getStoredEdit without its try/catch.
getStoredEdit_NoCatch(ls, orderId) ==
    LET stored == getItem(ls, StorageKey(orderId))
    IN  IF ~Truthy(stored) THEN Null ELSE JSONparse(stored)

getStoredEdit(ls, orderId) ==
    LET stored == getItem(ls, StorageKey(orderId))
    IN  IF ~Truthy(stored) THEN Null
        ELSE LET parsed == JSONparse(stored)
             IN  IF IsThrow(parsed) THEN Null ELSE parsed

\* getAddress reading the snapshot instead of the edited address.
getAddress_ReadsSnapshot(ls, orderId, originalAddress) ==
    LET stored == getStoredEdit(ls, orderId)
    IN  IF Truthy(stored) THEN Prop(stored, "originalAddress") ELSE originalAddress

getAddress(ls, orderId, originalAddress) ==
    LET stored == getStoredEdit(ls, orderId)
    IN  IF IsThrow(stored) THEN stored
        ELSE IF Truthy(stored) THEN Prop(stored, "address")
        ELSE originalAddress

hasEditedAddress(ls, orderId) == getItem(ls, StorageKey(orderId)) # Null

\* revertToOriginal blanking the value instead of removing the key.
revertToOriginal_Blanks(ls, orderId) == setItem(ls, StorageKey(orderId), Str(""))

\* revertToOriginal clearing the storage instead of removing one key.
revertToOriginal_ClearsAll(ls, orderId) == [k \in {} |-> Null]

revertToOriginal(ls, orderId) == removeItem(ls, StorageKey(orderId))

\* String.prototype.startsWith
startsWith(s, prefix) == Len(s) >= Len(prefix) /\ SubSeq(s, 1, Len(prefix)) = prefix

\* localStorage.key(0), localStorage.key(1), ...: the keys in the order the
\* browser numbers them.
RECURSIVE KeysOf(_)
KeysOf(S) ==
    IF S = {} THEN << >>
    ELSE LET key == CHOOSE k \in S : TRUE IN << key >> \o KeysOf(S \ {key})

\* The body of the loop of getAllEditedAddresses for one key: what it pushes.
\* key.replace(STORAGE_PREFIX, '') takes the prefix off the front.
EditedAddressEntry(ls, key) ==
    LET stored == getItem(ls, key)
        data == JSONparse(stored)
    IN  IF startsWith(key, STORAGE_PREFIX) /\ Truthy(stored) /\ ~IsThrow(data)
        THEN << [orderId |-> SubSeq(key, Len(STORAGE_PREFIX) + 1, Len(key)), data |-> data] >>
        ELSE << >>

RECURSIVE CollectEdited(_, _)
CollectEdited(ls, keys) ==
    IF keys = << >> THEN << >>
    ELSE EditedAddressEntry(ls, keys[1]) \o CollectEdited(ls, Tail(keys))

getAllEditedAddresses(ls) == CollectEdited(ls, KeysOf(DOMAIN ls))

(***************************************************************************)
(* Orders as the external order source returns them.  The catalogue holds *)
(* the shapes an order's address data can take; a fetch result gives      *)
(* order i the shape at position i + k.                                   *)
(***************************************************************************)
CustomerLuz == Obj([firstName |-> Str("Luz"), lastName |-> Str("Paz")])

OrderShapes ==
    << [shippingAddress |-> ShopifyAna, customer |-> Null],
       [shippingAddress |-> ShopifyNoName, customer |-> CustomerLuz],
       [shippingAddress |-> Null, customer |-> CustomerLuz],
       [shippingAddress |-> ShopifyNoName, customer |-> Null] >>

FetchResult(k) ==
    [i \in OrderIds |->
        LET shape == OrderShapes[((i + k) % Len(OrderShapes)) + 1]
        IN  [id |-> i, shippingAddress |-> shape.shippingAddress, customer |-> shape.customer]]

FetchResults == {FetchResult(k) : k \in 0..(Len(OrderShapes) - 1)}

(***************************************************************************)
(* Strings that localStorage can hold under an order's key without having *)
(* been written by saveEditedAddress: an empty string, text that is not   *)
(* JSON, JSON null, and a JSON object of another schema.                  *)
(***************************************************************************)
EmptyObject == Obj([k \in {} |-> Undefined])
CorruptTexts == {Str("{\"address\":")}
ForeignTexts == {Str(""), JsonText(Null), JsonText(EmptyObject)} \cup CorruptTexts

(***************************************************************************)
(* State.                                                                  *)
(***************************************************************************)
VARIABLES
    localStorage,   \* window.localStorage
    clock,          \* the time new Date() reads
    orders,         \* the orders of the last fetch, by id
    firstSnapshot,  \* per order: originalAddress of the first save since the last revert
    lastSaved,      \* per order: editedAddress of the latest save since the last revert
    lastOp,         \* per order: the latest store operation
    page,               \* the mounted route
    source,             \* external order source: fulfillment status per order
    fetchedOrders,      \* the orders state of the mounted list page
    loading,
    refreshing,
    error,
    fetches,            \* GET /api/orders calls in flight, in the order issued
    searchQuery,        \* searchQuery of Pedidos, searchTerm of PreparacionEnvio
    fulfillmentFilter,
    dateFilter,
    sortOrder,
    sortBy,
    selectedOrders,
    requestedLabels,    \* the orders parameter of the last navigation to the labels page
    isBulkModalOpen,
    isBulkFulfilling,
    trackingPayload,    \* state of BulkFulfillModal
    requests,           \* per order: the request of the latest bulk-fulfill batch
    orphans,            \* orders with a request of an earlier batch still at the server
    outcome,            \* what the latest bulk-fulfill batch reported
    requestBodies,      \* per order: the JSON body of its request on the way to the server
    labelOrders,        \* the orders state of ImpresionEtiquetas
    printedPages,       \* the pages ImpresionEtiquetas renders
    orderDate,          \* the date handed to the dispatch-date rule
    orderItems,         \* the line items handed to it
    businessDaysToAdd,
    shippingDate,       \* the date the rule returned
    aPedidoBadge,       \* the "A PEDIDO" badge of the order's row
    ruleOp,             \* which function of shippingUtils ran last
    editingOrder,       \* editingOrder of PreparacionEnvio: an order id, 0 for null
    formData,           \* state of AddressEditModal
    fullName,
    notes,
    isNameEditable,
    lastEdit,           \* per order: the button last pressed in its dialog
    submittedForm,      \* per order: the form as it stood at the latest submit since a revert
    editedCount,        \* the memoized editedCount of PreparacionEnvio
    latestFetch,        \* the answer to the fetch issued last, once fetchOrders took it up
    products,           \* state of Dashboard, next to its orders
    customers,
    dashFetch,          \* the three calls of Dashboard's fetchData, while they are awaited
    trackingNumber,     \* state of FulfillmentForm
    notifyCustomer,
    formStatus,         \* status of FulfillmentForm
    errorMessage,
    fulfillRequest,     \* the request of FulfillmentForm: its body, then the server's answer
    shopifyFulfillment, \* the fulfillment the server posted to Shopify for that request
    trackingUrl,        \* FulfillmentForm: the tracking URL input
    trackingCompany,    \* FulfillmentForm: the shipping company selected
    formOrderId         \* the order of PedidoDetalle, 0 when the page is not shown

storeVars == <<localStorage, clock, orders, firstSnapshot, lastSaved, lastOp>>

listVars ==
    <<page, source, fetchedOrders, loading, refreshing, error, fetches, searchQuery,
      fulfillmentFilter, dateFilter, sortOrder, sortBy, selectedOrders, requestedLabels>>

bulkVars == <<isBulkModalOpen, isBulkFulfilling, trackingPayload, requests, orphans, outcome, requestBodies>>

labelVars == <<labelOrders, printedPages>>

ruleVars == <<orderDate, orderItems, businessDaysToAdd, shippingDate, aPedidoBadge, ruleOp>>

editVars ==
    <<editingOrder, formData, fullName, notes, isNameEditable, lastEdit, submittedForm>>

dashVars == <<products, customers, dashFetch>>

formVars ==
    <<trackingNumber, notifyCustomer, formStatus, errorMessage, fulfillRequest, shopifyFulfillment,
      trackingUrl, trackingCompany, formOrderId>>

otherVars == <<editedCount, latestFetch, dashVars, formVars>>

vars == <<storeVars, listVars, bulkVars, labelVars, ruleVars, editVars, otherVars, otherVars>>

\* The external source before any fulfillment: every order is pending, with
\* either of the two statuses the source gives a pending order.
InitialSource == [i \in OrderIds |-> IF i % 2 = 1 THEN Null ELSE Str("unfulfilled")]

NoBatch == [i \in OrderIds |-> "none"]

\* No list page is mounted.
NoPageMounted ==
    /\ page = "none"
    /\ source = InitialSource
    /\ fetchedOrders = << >>
    /\ loading = FALSE
    /\ refreshing = FALSE
    /\ error = Null
    /\ fetches = << >>
    /\ latestFetch = Null
    /\ searchQuery = ""
    /\ fulfillmentFilter = "all"
    /\ dateFilter = "all"
    /\ sortOrder = "desc"
    /\ sortBy = "purchase"
    /\ selectedOrders = {}
    /\ requestedLabels = ""

\* No bulk fulfillment was started.
BulkIdle ==
    /\ isBulkModalOpen = FALSE
    /\ isBulkFulfilling = FALSE
    /\ trackingPayload = [i \in {} |-> Null]
    /\ requests = NoBatch
    /\ orphans = {}
    /\ outcome = "none"
    /\ requestBodies = [i \in OrderIds |-> Null]

\* The page shown is unmounted: its state is dropped with it.  The fulfill
\* requests the server has not taken up stay at the server, and the answers
\* still to come find no page.
PageUnmounts ==
    /\ isBulkModalOpen' = FALSE
    /\ isBulkFulfilling' = FALSE
    /\ trackingPayload' = [i \in {} |-> Null]
    /\ requests' = NoBatch
    /\ orphans' = orphans \cup {id \in OrderIds : requests[id] = "sent"}
    /\ outcome' = "none"
    /\ requestBodies' = [i \in OrderIds |-> Null]
    /\ products' = << >>
    /\ customers' = << >>
    /\ dashFetch' = Null

\* The labels page is not mounted.
LabelsIdle ==
    /\ labelOrders = << >>
    /\ printedPages = << >>

\* The dispatch-date rule has not run.
RulesIdle ==
    /\ orderDate = 0
    /\ orderItems = << >>
    /\ businessDaysToAdd = 0
    /\ shippingDate = 0
    /\ aPedidoBadge = FALSE
    /\ ruleOp = "none"

\* No edit dialog is open and none was used.
EditIdle ==
    /\ editingOrder = 0
    /\ formData = Null
    /\ fullName = ""
    /\ notes = ""
    /\ isNameEditable = FALSE
    /\ lastEdit = [i \in OrderIds |-> "none"]
    /\ submittedForm = [i \in OrderIds |-> Null]

\* PreparacionEnvio counts no edited address, Dashboard is not mounted and
\* no FulfillmentForm is.
OthersIdle ==
    /\ editedCount = 0
    /\ products = << >>
    /\ customers = << >>
    /\ dashFetch = Null
    /\ trackingNumber = ""
    /\ notifyCustomer = TRUE
    /\ formStatus = "idle"
    /\ errorMessage = ""
    /\ fulfillRequest = Null
    /\ shopifyFulfillment = Null
    /\ trackingUrl = ""
    /\ trackingCompany = ""
    /\ formOrderId = 0

\* The store is untouched.
StoreIdle ==
    /\ localStorage = [k \in {} |-> Null]
    /\ clock = 1
    /\ orders = [i \in OrderIds |-> Null]
    /\ firstSnapshot = [i \in OrderIds |-> Null]
    /\ lastSaved = [i \in OrderIds |-> Null]
    /\ lastOp = [i \in OrderIds |-> "none"]

(***************************************************************************)
(* pages/ImpresionEtiquetas.tsx: the label of one order.                   *)
(***************************************************************************)
\* getDisplayAddress without the fallback to the customer's name.
LabelDisplayAddress_NoFallback(ls, order) ==
    LET stored == getStoredEdit(ls, order.id)
    IN  IF Truthy(stored) THEN Prop(stored, "address")
        ELSE toEditedAddress(order.shippingAddress)

LabelDisplayAddress(ls, order) ==
    LET stored == getStoredEdit(ls, order.id)
        converted == toEditedAddress(order.shippingAddress)
        nameless == ~Truthy(Prop(converted, "firstName")) /\ ~Truthy(Prop(converted, "lastName"))
    IN  IF Truthy(stored) THEN Prop(stored, "address")
        ELSE IF Truthy(converted) /\ nameless /\ Truthy(order.customer)
        THEN Obj([k \in AddressFields |->
                    IF k \in {"firstName", "lastName"}
                    THEN Or(Prop(order.customer, k), Str(""))
                    ELSE converted.p[k]])
        ELSE converted

\* What ShippingLabel renders: the recipient block or the no-address marker,
\* and whether the "Editada" badge is drawn.
ShippingLabel(ls, order, compact) ==
    LET address == LabelDisplayAddress(ls, order)
        isEdited == hasEditedAddress(ls, order.id)
    IN  IF compact
        THEN [recipient |-> IF Truthy(address) THEN address ELSE Null,
              marker |-> IF Truthy(address) THEN "" ELSE "Sin direccion",
              editedBadge |-> FALSE]
        ELSE [recipient |-> IF Truthy(address) THEN address ELSE Null,
              marker |-> IF Truthy(address) THEN "" ELSE "Sin direccion de envio",
              editedBadge |-> isEdited]

\* The page renders every label with compact={true}.
RenderedLabel(ls, order) == ShippingLabel(ls, order, TRUE)

(***************************************************************************)
(* pages/PreparacionEnvio.tsx: a table row and the edit dialog.            *)
(***************************************************************************)
\* The row of one order: which address it shows and whether it carries the
\* "Modificado" badge.
PreparacionRow(ls, order) ==
    LET storedEdit == getStoredEdit(ls, order.id)
    IN  [address |-> IF Truthy(storedEdit) THEN Prop(storedEdit, "address")
                     ELSE toEditedAddress(order.shippingAddress),
         modificadoBadge |-> hasEditedAddress(ls, order.id)]

BlankForm == Obj([k \in AddressFields \cup {"notes"} |-> Str("")])

\* The first render of AddressEditModal: the initial form state, or the
\* TypeError that ends the render.
AddressEditModal(ls, order) ==
    LET originalAddress == toEditedAddress(order.shippingAddress)
        storedEdit == getStoredEdit(ls, order.id)
        storedAddress == OptProp(storedEdit, "address")
        storedNotes == IF storedEdit.t \in {"undefined", "null"} THEN Undefined
                       ELSE Prop(storedAddress, "notes")
    IN  IF IsThrow(storedNotes) THEN storedNotes
        ELSE [t |-> "rendered",
              formData |-> Or(storedAddress, Or(originalAddress, BlankForm)),
              notes |-> Or(storedNotes, Str("")),
              modificadoBadge |-> storedEdit # Null]

(***************************************************************************)
(* The store under its callers: saves and reverts with any arguments,      *)
(* time passing, and a new fetch of the orders.                            *)
(***************************************************************************)
NoOrders == [i \in OrderIds |-> Null]

InitStore ==
    /\ \/ localStorage = [k \in {} |-> Null]
       \/ \E id \in OrderIds, text \in ForeignTexts :
             localStorage = (StorageKey(id) :> text)
    /\ clock = 1
    /\ orders \in FetchResults
    /\ firstSnapshot = NoOrders
    /\ lastSaved = NoOrders
    /\ lastOp = [i \in OrderIds |-> "none"]
    /\ NoPageMounted
    /\ BulkIdle
    /\ RulesIdle
    /\ EditIdle
    /\ OthersIdle
    /\ LabelsIdle

Save(id, editedAddress, originalAddress) ==
    /\ localStorage' = saveEditedAddress(localStorage, id, editedAddress, originalAddress, clock)
    /\ firstSnapshot' = [firstSnapshot EXCEPT
                            ![id] = IF lastSaved[id] = Null THEN originalAddress ELSE @]
    /\ lastSaved' = [lastSaved EXCEPT ![id] = editedAddress]
    /\ lastOp' = [lastOp EXCEPT ![id] = "save"]
    /\ UNCHANGED <<clock, orders, listVars, bulkVars, labelVars, ruleVars, editVars, otherVars>>

Revert(id) ==
    /\ localStorage' = revertToOriginal(localStorage, id)
    /\ firstSnapshot' = [firstSnapshot EXCEPT ![id] = Null]
    /\ lastSaved' = [lastSaved EXCEPT ![id] = Null]
    /\ lastOp' = [lastOp EXCEPT ![id] = IF lastSaved[id] # Null THEN "save-revert" ELSE "revert"]
    /\ UNCHANGED <<clock, orders, listVars, bulkVars, labelVars, ruleVars, editVars, otherVars>>

\* pages/Productos.tsx: the view-mode buttons write a key of their own.
ViewModes == {"grid", "list"}

handleViewModeChange(mode) ==
    /\ getItem(localStorage, "products_view_mode") # Str(mode)
    /\ localStorage' = setItem(localStorage, "products_view_mode", Str(mode))
    /\ UNCHANGED <<clock, orders, firstSnapshot, lastSaved, lastOp>>
    /\ UNCHANGED <<listVars, bulkVars, labelVars, ruleVars, editVars, otherVars>>

Tick ==
    /\ clock < MaxTime
    /\ clock' = clock + 1
    /\ UNCHANGED <<localStorage, orders, firstSnapshot, lastSaved, lastOp>>
    /\ UNCHANGED <<listVars, bulkVars, labelVars, ruleVars, editVars, otherVars>>

FetchOrders ==
    /\ orders' \in FetchResults
    /\ UNCHANGED <<localStorage, clock, firstSnapshot, lastSaved, lastOp>>
    /\ UNCHANGED <<listVars, bulkVars, labelVars, ruleVars, editVars, otherVars>>

NextStore ==
    \/ \E id \in OrderIds, a \in EditedAddresses, o \in OriginalAddresses : Save(id, a, o)
    \/ \E id \in OrderIds : Revert(id)
    \/ \E mode \in ViewModes : handleViewModeChange(mode)
    \/ Tick
    \/ FetchOrders

SpecStore == InitStore /\ [][NextStore]_vars

(***************************************************************************)
(* Strings: the String.prototype methods the pages use.                    *)
(***************************************************************************)
UpperLetters == "ABCDEFGHIJKLMNOPQRSTUVWXYZ"
LowerLetters == "abcdefghijklmnopqrstuvwxyz"

CharAt(s, i) == SubSeq(s, i, i)

MapChar(c, from, to) ==
    IF \E i \in 1..Len(from) : CharAt(from, i) = c
    THEN CharAt(to, CHOOSE i \in 1..Len(from) : CharAt(from, i) = c)
    ELSE c

RECURSIVE MapString(_, _, _)
MapString(s, from, to) ==
    IF s = "" THEN ""
    ELSE MapChar(CharAt(s, 1), from, to) \o MapString(SubSeq(s, 2, Len(s)), from, to)

toLowerCase(s) == MapString(s, UpperLetters, LowerLetters)
toUpperCase(s) == MapString(s, LowerLetters, UpperLetters)

includes(s, q) == \E i \in 0..(Len(s) - Len(q)) : SubSeq(s, i + 1, i + Len(q)) = q

\* s.trim() is non-empty: some character of s is not a space.
TrimmedNonEmpty(s) == \E i \in 1..Len(s) : CharAt(s, i) # " "

\* v?.toLowerCase().includes(query), as a condition
LowerIncludes(v, query) == v.t = "string" /\ includes(toLowerCase(v.v), query)

(***************************************************************************)
(* utils/shippingUtils.ts.  A Date is a number of hours of local time      *)
(* counted from the midnight that begins a Monday.                         *)
(***************************************************************************)
getDay(date) == ((date \div 24) + 1) % 7

\* A walk that counts the day it stands on before it moves.
RECURSIVE BusinessDayWalk_CountsStart(_, _, _)
BusinessDayWalk_CountsStart(result, count, days) ==
    LET counted == IF getDay(result) # 0 /\ getDay(result) # 6 THEN count + 1 ELSE count
    IN  IF counted >= days THEN result
        ELSE BusinessDayWalk_CountsStart(result + 24, counted, days)

RECURSIVE BusinessDayWalk(_, _, _)
BusinessDayWalk(result, count, days) ==
    IF count < days
    THEN LET next == result + 24
         IN  BusinessDayWalk(next,
                             IF getDay(next) # 0 /\ getDay(next) # 6 THEN count + 1 ELSE count,
                             days)
    ELSE result

\* Calendar days in place of business days.
addBusinessDays_Calendar(date, days) == date + days * 24

addBusinessDays(date, days) == BusinessDayWalk(date, 0, days)

\* The title compared as written.
hasOrderSpecificItem_CaseSensitive(lineItems) ==
    \E i \in 1..Len(lineItems) :
        includes(Or(Prop(lineItems[i], "title"), Or(Prop(lineItems[i], "name"), Str(""))).v, "PEDIDO")

hasOrderSpecificItem(lineItems) ==
    \E i \in 1..Len(lineItems) :
        includes(toUpperCase(Or(Prop(lineItems[i], "title"),
                                Or(Prop(lineItems[i], "name"), Str(""))).v), "PEDIDO")

calculateShippingDate(createdAt, lineItems) ==
    addBusinessDays(createdAt, IF hasOrderSpecificItem(lineItems) THEN 20 ELSE 3)

\* pages/Pedidos.tsx: the badge of a row is "A PEDIDO", else "EN STOCK".
isAPedido(lineItems) ==
    \E i \in 1..Len(lineItems) :
        includes(toUpperCase(Or(Prop(lineItems[i], "title"), Str("")).v), "PEDIDO")

(***************************************************************************)
(* The orders of the external order source, as GET /api/orders returns     *)
(* them: fixed data per order and the fulfillment status of the moment.    *)
(***************************************************************************)
Today == 40

Now == Today * 24 + 10

CreatedAt(i) == (Today - (8 * i - 6)) * 24 + 9

CustomerAna ==
    Obj([firstName |-> Str("Ana"), lastName |-> Str("Rojas"), email |-> Str("ana@criemos.cl")])

SourceOrder(i, status) ==
    [id |-> i,
     name |-> Str("#" \o ToString(1000 + i)),
     orderNumber |-> 1000 + i,
     createdAt |-> CreatedAt(i),
     fulfillmentStatus |-> status,
     customer |-> IF i % 2 = 1 THEN CustomerAna ELSE Null,
     shippingAddress |-> IF i % 2 = 1 THEN ShopifyAna ELSE ShopifyNoName,
     lineItems |-> IF i % 2 = 1
                   THEN << Obj([title |-> Str("Cuna colecho")]) >>
                   ELSE << Obj([title |-> Str("Silla a pedido")]), Obj([title |-> Str("Manta")]) >>]

FulfillmentStatuses == {Null, Str("unfulfilled"), Str("fulfilled")}

\* The response to GET /api/orders: the newest order first.
RECURSIVE OrdersResponse(_, _)
OrdersResponse(status, n) ==
    IF n = 0 THEN << >> ELSE OrdersResponse(status, n - 1) \o << SourceOrder(n, status[n]) >>

(***************************************************************************)
(* Array.prototype.sort with a comparator: a stable insertion sort.        *)
(***************************************************************************)
SortKey(o, by) ==
    IF by = "dispatch" THEN calculateShippingDate(o.createdAt, o.lineItems) ELSE o.createdAt

\* A comparator that ignores the direction.
Compare_Ascending(a, b, by, direction) == SortKey(a, by) - SortKey(b, by)

\* The comparator of both pages: valB - valA for 'desc', valA - valB for 'asc'.
Compare(a, b, by, direction) ==
    IF direction = "desc" THEN SortKey(b, by) - SortKey(a, by)
    ELSE SortKey(a, by) - SortKey(b, by)

\* An insertion that puts an element before the elements equal to it.
RECURSIVE InsertSorted_Unstable(_, _, _, _)
InsertSorted_Unstable(sorted, x, by, direction) ==
    IF sorted = << >> THEN << x >>
    ELSE IF Compare(sorted[Len(sorted)], x, by, direction) < 0 THEN Append(sorted, x)
    ELSE Append(InsertSorted_Unstable(SubSeq(sorted, 1, Len(sorted) - 1), x, by, direction),
                sorted[Len(sorted)])

RECURSIVE InsertSorted(_, _, _, _)
InsertSorted(sorted, x, by, direction) ==
    IF sorted = << >> THEN << x >>
    ELSE IF Compare(sorted[Len(sorted)], x, by, direction) <= 0 THEN Append(sorted, x)
    ELSE Append(InsertSorted(SubSeq(sorted, 1, Len(sorted) - 1), x, by, direction),
                sorted[Len(sorted)])

RECURSIVE SortOrders(_, _, _)
SortOrders(list, by, direction) ==
    IF list = << >> THEN << >>
    ELSE InsertSorted(SortOrders(SubSeq(list, 1, Len(list) - 1), by, direction),
                      list[Len(list)], by, direction)

Ids(list) == {list[i].id : i \in 1..Len(list)}

(***************************************************************************)
(* pages/Pedidos.tsx: the filtered and sorted list.                        *)
(***************************************************************************)
IsPending(o) == ~Truthy(o.fulfillmentStatus) \/ o.fulfillmentStatus = Str("unfulfilled")

daysMap == [d \in {"7days", "15days", "30days", "60days", "90days"} |->
               CASE d = "7days" -> 7 [] d = "15days" -> 15 [] d = "30days" -> 30
                 [] d = "60days" -> 60 [] OTHER -> 90]

PedidosMatches(o, f) ==
    /\ f.fulfillmentFilter = "pending" => IsPending(o)
    /\ f.fulfillmentFilter = "fulfilled" => o.fulfillmentStatus = Str("fulfilled")
    /\ f.dateFilter # "all" => o.createdAt >= Now - daysMap[f.dateFilter] * 24
    /\ TrimmedNonEmpty(f.searchQuery) =>
          LET query == toLowerCase(f.searchQuery)
          IN  \/ LowerIncludes(o.name, query)
              \/ includes(ToString(o.orderNumber), query)
              \/ LowerIncludes(OptProp(o.customer, "firstName"), query)
              \/ LowerIncludes(OptProp(o.customer, "lastName"), query)
              \/ LowerIncludes(OptProp(o.customer, "email"), query)

PedidosFilteredOrders(list, f) ==
    SortOrders(SelectSeq(list, LAMBDA o : PedidosMatches(o, f)), f.sortBy, f.sortOrder)

(***************************************************************************)
(* pages/PreparacionEnvio.tsx: the filtered and sorted list.               *)
(***************************************************************************)
PreparacionMatches(o, f) ==
    LET searchLower == toLowerCase(f.searchQuery)
        orderName == toLowerCase(Or(o.name, Str("")).v)
        customerName == toLowerCase(Or(OptProp(o.customer, "firstName"), Str("")).v \o " "
                                    \o Or(OptProp(o.customer, "lastName"), Str("")).v)
        customerEmail == toLowerCase(Or(OptProp(o.customer, "email"), Str("")).v)
    IN  \/ includes(orderName, searchLower)
        \/ includes(customerName, searchLower)
        \/ includes(customerEmail, searchLower)

PreparacionFilteredOrders(list, f) ==
    SortOrders(SelectSeq(list, LAMBDA o : PreparacionMatches(o, f)), f.sortBy, f.sortOrder)

(***************************************************************************)
(* The list pages: what both compute from their state.                     *)
(***************************************************************************)
ListPages == {"pedidos", "preparacion"}
SearchQueries == {"", "Ana", "1002"}
FulfillmentFilters == {"all", "pending", "fulfilled"}
DateFilters == {"all", "7days", "15days"}
SortColumns == {"purchase", "dispatch"}

\* GET /api/orders calls kept in flight at once.
MaxInFlight == 1

Filters ==
    [searchQuery |-> searchQuery, fulfillmentFilter |-> fulfillmentFilter,
     dateFilter |-> dateFilter, sortOrder |-> sortOrder, sortBy |-> sortBy]

filteredOrders ==
    IF page = "pedidos" THEN PedidosFilteredOrders(fetchedOrders, Filters)
    ELSE IF page = "preparacion" THEN PreparacionFilteredOrders(fetchedOrders, Filters)
    ELSE << >>

selectedOrdersList == SelectSeq(filteredOrders, LAMBDA o : o.id \in selectedOrders)

\* The table of orders is on screen.
TableShown == ~loading /\ error = Null /\ filteredOrders # << >>

\* The empty state is on screen.
EmptyShown == ~loading /\ error = Null /\ filteredOrders = << >>

Flip(direction) == IF direction = "desc" THEN "asc" ELSE "desc"

RemoveAt(seq, k) == SubSeq(seq, 1, k - 1) \o SubSeq(seq, k + 1, Len(seq))

(***************************************************************************)
(* GET /api/orders: the call, the server's answer, the client's wrapper.   *)
(***************************************************************************)
NoResponse == [t |-> "none"]
OkResponse(data) == [t |-> "ok", data |-> data]
ErrorResponse(message) == [t |-> "error", message |-> message]

\* An error as axios hands it to handleApiError: with the response of the
\* server, or with the request alone when no response was received.
AxiosResponseError(status, data) == [response |-> [status |-> status, data |-> data]]
AxiosRequestError == [response |-> Undefined]

NetworkErrorMessage ==
    "No se pudo conectar con el servidor. Verifica que el backend esté corriendo."

\* The body of a 500 answer of the server: a fixed text per endpoint in
\* error, and the message of the error caught in message.
ServerErrorBody(label, message) ==
    Obj([success |-> Bool(FALSE), error |-> Str(label), message |-> Str(message)])

\* What shopifyRequest throws when the source answers 401.
ShopifyErrorMessage == "Shopify API Error: 401 - Unauthorized"

\* The message of the Error that handleApiError throws.
handleApiError(axiosError) ==
    IF axiosError.response # Undefined
    THEN Or(OptProp(axiosError.response.data, "error"),
            Or(OptProp(axiosError.response.data, "message"),
               Str("Error " \o ToString(axiosError.response.status)))).v
    ELSE NetworkErrorMessage

\* The server answers call k with the orders as the source has them now.
ServerReturnsOrders(k) ==
    /\ fetches[k] = NoResponse
    /\ fetches' = [fetches EXCEPT ![k] = OkResponse(OrdersResponse(source, MaxOrders))]
    /\ UNCHANGED <<page, source, fetchedOrders, loading, refreshing, error, searchQuery,
                   fulfillmentFilter, dateFilter, sortOrder, sortBy, selectedOrders,
                   requestedLabels, storeVars, bulkVars, labelVars, ruleVars, editVars, otherVars>>

\* Call k gets no response: handleApiError throws.
GetOrdersFails(k) ==
    /\ fetches[k] = NoResponse
    /\ fetches' = [fetches EXCEPT
                      ![k] = ErrorResponse(handleApiError(AxiosRequestError))]
    /\ UNCHANGED <<page, source, fetchedOrders, loading, refreshing, error, searchQuery,
                   fulfillmentFilter, dateFilter, sortOrder, sortBy, selectedOrders,
                   requestedLabels, storeVars, bulkVars, labelVars, ruleVars, editVars, otherVars>>

\* The source refuses the server: the server answers call k with 500, and
\* handleApiError throws.  The entry keeps the body the server sent.
ServerRejectsOrders(k) ==
    /\ fetches[k] = NoResponse
    /\ LET body == ServerErrorBody("Error al obtener pedidos", ShopifyErrorMessage)
       IN  fetches' = [fetches EXCEPT
                         ![k] = [t |-> "error",
                                 message |-> handleApiError(AxiosResponseError(500, body)),
                                 body |-> body]]
    /\ UNCHANGED <<page, source, fetchedOrders, loading, refreshing, error, searchQuery,
                   fulfillmentFilter, dateFilter, sortOrder, sortBy, selectedOrders,
                   requestedLabels, storeVars, bulkVars, labelVars, ruleVars, editVars, otherVars>>

\* Outside the application, an order is fulfilled at the source.
SourceFulfills(id) ==
    /\ source[id] # Str("fulfilled")
    /\ source' = [source EXCEPT ![id] = Str("fulfilled")]
    /\ UNCHANGED <<page, fetchedOrders, loading, refreshing, error, fetches, searchQuery,
                   fulfillmentFilter, dateFilter, sortOrder, sortBy, selectedOrders,
                   requestedLabels, storeVars, bulkVars, labelVars, ruleVars, editVars, otherVars>>

(***************************************************************************)
(* BulkFulfillModal: the payload its effect builds.                        *)
(***************************************************************************)
TrackingFields == {"trackingNumber", "trackingCompany", "trackingUrl"}

initialPayload(list) == [id \in Ids(list) |-> [f \in TrackingFields |-> ""]]

(***************************************************************************)
(* pages/Pedidos.tsx                                                       *)
(***************************************************************************)
\* The first render and the mount effect.
PedidosMounts ==
    /\ page' = "pedidos"
    /\ fetchedOrders' = << >>
    /\ loading' = TRUE
    /\ error' = Null
    /\ refreshing' = FALSE
    /\ searchQuery' = ""
    /\ fulfillmentFilter' = "all"
    /\ dateFilter' = "all"
    /\ sortOrder' = "desc"
    /\ sortBy' = "purchase"
    /\ selectedOrders' = {}
    /\ fetches' = << NoResponse >>
    /\ latestFetch' = NoResponse

\* fetchOrders up to its await.
Pedidos_fetchOrders(isRefresh) ==
    /\ IF isRefresh
       THEN refreshing' = TRUE /\ UNCHANGED loading
       ELSE loading' = TRUE /\ UNCHANGED refreshing
    /\ error' = Null
    /\ fetches' = Append(fetches, NoResponse)
    /\ latestFetch' = NoResponse

\* fetchOrders after its await, with the effect of BulkFulfillModal that
\* runs when the list it is given changes.
Pedidos_fetchOrdersResumes(k) ==
    /\ page = "pedidos"
    /\ fetches[k] # NoResponse
    /\ IF fetches[k].t = "ok"
       THEN /\ fetchedOrders' = fetches[k].data
            /\ UNCHANGED error
            /\ trackingPayload' =
                 IF isBulkModalOpen
                 THEN initialPayload(SelectSeq(PedidosFilteredOrders(fetches[k].data, Filters),
                                               LAMBDA o : o.id \in selectedOrders))
                 ELSE trackingPayload
       ELSE /\ error' = Str(fetches[k].message)
            /\ UNCHANGED <<fetchedOrders, trackingPayload>>
    /\ loading' = FALSE
    /\ refreshing' = FALSE
    /\ fetches' = RemoveAt(fetches, k)
    /\ latestFetch' = IF k = Len(fetches) /\ latestFetch = NoResponse THEN fetches[k] ELSE latestFetch
    /\ UNCHANGED <<page, source, searchQuery, fulfillmentFilter, dateFilter, sortOrder, sortBy,
                   selectedOrders, requestedLabels, storeVars, labelVars, ruleVars, editVars, editedCount, dashVars, formVars,
                   isBulkModalOpen, isBulkFulfilling, requests, orphans, outcome, requestBodies>>

\* The Sincronizar button.
PedidosSyncUpTo(cap) ==
    /\ page = "pedidos"
    /\ ~isBulkModalOpen
    /\ ~(refreshing \/ loading)
    /\ Len(fetches) < cap
    /\ Pedidos_fetchOrders(TRUE)
    /\ UNCHANGED <<page, source, fetchedOrders, searchQuery, fulfillmentFilter, dateFilter,
                   sortOrder, sortBy, selectedOrders, requestedLabels,
                   storeVars, bulkVars, labelVars, ruleVars, editVars, editedCount, dashVars, formVars>>

PedidosSync == PedidosSyncUpTo(MaxInFlight)

\* The Reintentar button of the error state.
PedidosRetry ==
    /\ page = "pedidos"
    /\ ~isBulkModalOpen
    /\ error # Null /\ ~loading
    /\ Len(fetches) < MaxInFlight
    /\ Pedidos_fetchOrders(FALSE)
    /\ UNCHANGED <<page, source, fetchedOrders, searchQuery, fulfillmentFilter, dateFilter,
                   sortOrder, sortBy, selectedOrders, requestedLabels,
                   storeVars, bulkVars, labelVars, ruleVars, editVars, editedCount, dashVars, formVars>>

\* The filters panel is on screen while nothing is selected.
FiltersPanelShown == page = "pedidos" /\ ~isBulkModalOpen /\ selectedOrders = {}

setSearchQuery(q) ==
    /\ FiltersPanelShown
    /\ q # searchQuery
    /\ searchQuery' = q
    /\ UNCHANGED <<page, source, fetchedOrders, loading, refreshing, error, fetches,
                   fulfillmentFilter, dateFilter, sortOrder, sortBy, selectedOrders,
                   requestedLabels, storeVars, bulkVars, labelVars, ruleVars, editVars, otherVars>>

setFulfillmentFilter(v) ==
    /\ FiltersPanelShown
    /\ v # fulfillmentFilter
    /\ fulfillmentFilter' = v
    /\ UNCHANGED <<page, source, fetchedOrders, loading, refreshing, error, fetches,
                   searchQuery, dateFilter, sortOrder, sortBy, selectedOrders,
                   requestedLabels, storeVars, bulkVars, labelVars, ruleVars, editVars, otherVars>>

setDateFilter(v) ==
    /\ FiltersPanelShown
    /\ v # dateFilter
    /\ dateFilter' = v
    /\ UNCHANGED <<page, source, fetchedOrders, loading, refreshing, error, fetches,
                   searchQuery, fulfillmentFilter, sortOrder, sortBy, selectedOrders,
                   requestedLabels, storeVars, bulkVars, labelVars, ruleVars, editVars, otherVars>>

\* The sort-direction button of the filters panel.
PedidosToggleSortOrder ==
    /\ FiltersPanelShown
    /\ sortOrder' = Flip(sortOrder)
    /\ UNCHANGED <<page, source, fetchedOrders, loading, refreshing, error, fetches,
                   searchQuery, fulfillmentFilter, dateFilter, sortBy, selectedOrders,
                   requestedLabels, storeVars, bulkVars, labelVars, ruleVars, editVars, otherVars>>

\* The FECHA and DESPACHO column headers.
PedidosSortByColumn(column) ==
    /\ page = "pedidos"
    /\ ~isBulkModalOpen
    /\ TableShown
    /\ IF sortBy = column
       THEN sortOrder' = Flip(sortOrder) /\ UNCHANGED sortBy
       ELSE sortBy' = column /\ sortOrder' = "desc"
    /\ UNCHANGED <<page, source, fetchedOrders, loading, refreshing, error, fetches,
                   searchQuery, fulfillmentFilter, dateFilter, selectedOrders,
                   requestedLabels, storeVars, bulkVars, labelVars, ruleVars, editVars, otherVars>>

\* "Limpiar filtros" of the empty state.
PedidosClearFilters ==
    /\ page = "pedidos"
    /\ ~isBulkModalOpen
    /\ EmptyShown
    /\ searchQuery' = ""
    /\ fulfillmentFilter' = "all"
    /\ dateFilter' = "all"
    /\ UNCHANGED <<page, source, fetchedOrders, loading, refreshing, error, fetches,
                   sortOrder, sortBy, selectedOrders,
                   requestedLabels, storeVars, bulkVars, labelVars, ruleVars, editVars, otherVars>>

toggleOrder(id) ==
    /\ page = "pedidos"
    /\ ~isBulkModalOpen
    /\ TableShown
    /\ id \in Ids(filteredOrders)
    /\ selectedOrders' = IF id \in selectedOrders THEN selectedOrders \ {id}
                         ELSE selectedOrders \cup {id}
    /\ UNCHANGED <<page, source, fetchedOrders, loading, refreshing, error, fetches,
                   searchQuery, fulfillmentFilter, dateFilter, sortOrder, sortBy,
                   requestedLabels, storeVars, bulkVars, labelVars, ruleVars, editVars, otherVars>>

toggleAll ==
    /\ page = "pedidos"
    /\ ~isBulkModalOpen
    /\ TableShown
    /\ selectedOrders' =
         IF Cardinality(selectedOrders) = Len(filteredOrders) /\ Len(filteredOrders) > 0
         THEN {}
         ELSE Ids(filteredOrders)
    /\ UNCHANGED <<page, source, fetchedOrders, loading, refreshing, error, fetches,
                   searchQuery, fulfillmentFilter, dateFilter, sortOrder, sortBy,
                   requestedLabels, storeVars, bulkVars, labelVars, ruleVars, editVars, otherVars>>

\* "Deseleccionar" of the bulk bar.
PedidosDeselectAll ==
    /\ page = "pedidos"
    /\ ~isBulkModalOpen
    /\ selectedOrders # {}
    /\ selectedOrders' = {}
    /\ UNCHANGED <<page, source, fetchedOrders, loading, refreshing, error, fetches,
                   searchQuery, fulfillmentFilter, dateFilter, sortOrder, sortBy,
                   requestedLabels, storeVars, bulkVars, labelVars, ruleVars, editVars, otherVars>>

(***************************************************************************)
(* pages/PreparacionEnvio.tsx                                              *)
(***************************************************************************)
\* The first render and the mount effect.
PreparacionMounts ==
    /\ page' = "preparacion"
    /\ fetchedOrders' = << >>
    /\ loading' = TRUE
    /\ error' = Null
    /\ refreshing' = FALSE
    /\ searchQuery' = ""
    /\ fulfillmentFilter' = "all"
    /\ dateFilter' = "all"
    /\ sortOrder' = "asc"
    /\ sortBy' = "dispatch"
    /\ selectedOrders' = {}
    /\ fetches' = << NoResponse >>
    /\ latestFetch' = NoResponse

\* fetchOrders up to its await.
Preparacion_fetchOrders ==
    /\ loading' = TRUE
    /\ error' = Null
    /\ fetches' = Append(fetches, NoResponse)
    /\ latestFetch' = NoResponse

\* The useMemo of editedCount: computed when the orders state changes.
EditedCount(list, ls) == Len(SelectSeq(list, LAMBDA o : hasEditedAddress(ls, o.id)))

\* fetchOrders after its await, and the render that follows: a new orders
\* state makes the memo of editedCount compute again.
Preparacion_fetchOrdersResumes(k) ==
    /\ page = "preparacion"
    /\ fetches[k] # NoResponse
    /\ IF fetches[k].t = "ok"
       THEN /\ fetchedOrders' = SelectSeq(fetches[k].data, IsPending)
            /\ editedCount' = EditedCount(fetchedOrders', localStorage)
            /\ UNCHANGED error
       ELSE error' = Str(fetches[k].message) /\ UNCHANGED <<fetchedOrders, editedCount>>
    /\ loading' = FALSE
    /\ fetches' = RemoveAt(fetches, k)
    /\ latestFetch' = IF k = Len(fetches) /\ latestFetch = NoResponse THEN fetches[k] ELSE latestFetch
    /\ UNCHANGED <<page, source, refreshing, searchQuery, fulfillmentFilter, dateFilter,
                   sortOrder, sortBy, selectedOrders, requestedLabels,
                   storeVars, bulkVars, labelVars, ruleVars, editVars, dashVars, formVars>>

\* The Reintentar button of the error state.
PreparacionRetry ==
    /\ page = "preparacion"
    /\ error # Null /\ ~loading
    /\ Len(fetches) < MaxInFlight
    /\ Preparacion_fetchOrders
    /\ UNCHANGED <<page, source, fetchedOrders, refreshing, searchQuery, fulfillmentFilter,
                   dateFilter, sortOrder, sortBy, selectedOrders, requestedLabels,
                   storeVars, bulkVars, labelVars, ruleVars, editVars, editedCount, dashVars, formVars>>

setSearchTerm(q) ==
    /\ page = "preparacion"
    /\ q # searchQuery
    /\ searchQuery' = q
    /\ UNCHANGED <<page, source, fetchedOrders, loading, refreshing, error, fetches,
                   fulfillmentFilter, dateFilter, sortOrder, sortBy, selectedOrders,
                   requestedLabels, storeVars, bulkVars, labelVars, ruleVars, editVars, otherVars>>

\* "Limpiar búsqueda" of the empty state.
PreparacionClearSearch ==
    /\ page = "preparacion"
    /\ EmptyShown
    /\ searchQuery # ""
    /\ searchQuery' = ""
    /\ UNCHANGED <<page, source, fetchedOrders, loading, refreshing, error, fetches,
                   fulfillmentFilter, dateFilter, sortOrder, sortBy, selectedOrders,
                   requestedLabels, storeVars, bulkVars, labelVars, ruleVars, editVars, otherVars>>

\* The ORDEN and FECHA DESPACHO column headers.
PreparacionSortByColumn(column) ==
    /\ page = "preparacion"
    /\ TableShown
    /\ IF sortBy = column
       THEN sortOrder' = Flip(sortOrder) /\ UNCHANGED sortBy
       ELSE sortBy' = column /\ sortOrder' = "asc"
    /\ UNCHANGED <<page, source, fetchedOrders, loading, refreshing, error, fetches,
                   searchQuery, fulfillmentFilter, dateFilter, selectedOrders,
                   requestedLabels, storeVars, bulkVars, labelVars, ruleVars, editVars, otherVars>>

\* The header checkbox as rendered.
HeaderChecked ==
    Cardinality(selectedOrders) = Len(filteredOrders) /\ Len(filteredOrders) > 0

\* A click on the header checkbox hands over the negation of what it shows.
handleSelectAll(checked) ==
    /\ page = "preparacion"
    /\ TableShown
    /\ checked = ~HeaderChecked
    /\ selectedOrders' = IF checked THEN Ids(filteredOrders) ELSE {}
    /\ UNCHANGED <<page, source, fetchedOrders, loading, refreshing, error, fetches,
                   searchQuery, fulfillmentFilter, dateFilter, sortOrder, sortBy,
                   requestedLabels, storeVars, bulkVars, labelVars, ruleVars, editVars, otherVars>>

handleSelectOrder(orderId) ==
    /\ page = "preparacion"
    /\ TableShown
    /\ orderId \in Ids(filteredOrders)
    /\ selectedOrders' = IF orderId \in selectedOrders THEN selectedOrders \ {orderId}
                         ELSE selectedOrders \cup {orderId}
    /\ UNCHANGED <<page, source, fetchedOrders, loading, refreshing, error, fetches,
                   searchQuery, fulfillmentFilter, dateFilter, sortOrder, sortBy,
                   requestedLabels, storeVars, bulkVars, labelVars, ruleVars, editVars, otherVars>>

\* String.prototype.replace with a one-character pattern: the first
\* occurrence goes.
RECURSIVE replaceFirst(_, _)
replaceFirst(s, c) ==
    IF s = "" THEN ""
    ELSE IF CharAt(s, 1) = c THEN SubSeq(s, 2, Len(s))
    ELSE CharAt(s, 1) \o replaceFirst(SubSeq(s, 2, Len(s)), c)

RECURSIVE join(_, _)
join(strings, separator) ==
    IF strings = << >> THEN ""
    ELSE IF Len(strings) = 1 THEN strings[1]
    ELSE strings[1] \o separator \o join(Tail(strings), separator)

\* The orders parameter the prepare-labels button builds.
LabelsParameter ==
    LET chosen == SelectSeq(fetchedOrders, LAMBDA o : o.id \in selectedOrders)
        label(o) == IF o.name.t = "string" /\ replaceFirst(o.name.v, "#") # ""
                    THEN replaceFirst(o.name.v, "#")
                    ELSE ToString(o.id)
    IN  join([i \in 1..Len(chosen) |-> label(chosen[i])], ",")

\* The prepare-labels button: the route changes to the labels page.
PrepareLabels ==
    /\ page = "preparacion"
    /\ selectedOrders # {}
    /\ requestedLabels' = LabelsParameter
    /\ page' = "etiquetas"
    /\ fetchedOrders' = << >>
    /\ loading' = FALSE
    /\ error' = Null
    /\ fetches' = << >>
    /\ latestFetch' = Null
    /\ searchQuery' = ""
    /\ sortOrder' = "desc"
    /\ sortBy' = "purchase"
    /\ selectedOrders' = {}
    /\ editedCount' = 0
    /\ UNCHANGED <<source, refreshing, fulfillmentFilter, dateFilter,
                   storeVars, bulkVars, labelVars, ruleVars, editVars, dashVars, formVars>>

(***************************************************************************)
(* The two list pages under an operator who moves between them, selects,   *)
(* filters, searches, sorts and refreshes, while orders get fulfilled at   *)
(* the source.                                                             *)
(***************************************************************************)
Navigate(p) ==
    /\ page # p
    /\ IF p = "pedidos" THEN PedidosMounts ELSE PreparacionMounts
    /\ editedCount' = 0
    /\ PageUnmounts
    /\ UNCHANGED <<source, requestedLabels, storeVars, labelVars, ruleVars, editVars, formVars>>

InitSelection ==
    /\ page \in ListPages
    /\ source = InitialSource
    /\ fetchedOrders = << >>
    /\ loading = TRUE
    /\ refreshing = FALSE
    /\ error = Null
    /\ fetches = << NoResponse >>
    /\ latestFetch = NoResponse
    /\ searchQuery = ""
    /\ fulfillmentFilter = "all"
    /\ dateFilter = "all"
    /\ sortOrder = IF page = "pedidos" THEN "desc" ELSE "asc"
    /\ sortBy = IF page = "pedidos" THEN "purchase" ELSE "dispatch"
    /\ selectedOrders = {}
    /\ requestedLabels = ""
    /\ StoreIdle
    /\ BulkIdle
    /\ RulesIdle
    /\ EditIdle
    /\ OthersIdle
    /\ LabelsIdle

NextSelection ==
    \/ \E p \in ListPages : Navigate(p)
    \/ \E k \in 1..Len(fetches) : ServerReturnsOrders(k)
    \/ \E k \in 1..Len(fetches) : GetOrdersFails(k)
    \/ \E id \in OrderIds : SourceFulfills(id)
    \/ \E k \in 1..Len(fetches) : Pedidos_fetchOrdersResumes(k)
    \/ PedidosSync
    \/ PedidosRetry
    \/ \E q \in SearchQueries : setSearchQuery(q)
    \/ \E v \in FulfillmentFilters : setFulfillmentFilter(v)
    \/ \E v \in DateFilters : setDateFilter(v)
    \/ PedidosToggleSortOrder
    \/ \E column \in SortColumns : PedidosSortByColumn(column)
    \/ PedidosClearFilters
    \/ \E id \in OrderIds : toggleOrder(id)
    \/ toggleAll
    \/ PedidosDeselectAll
    \/ \E k \in 1..Len(fetches) : Preparacion_fetchOrdersResumes(k)
    \/ PreparacionRetry
    \/ \E q \in SearchQueries : setSearchTerm(q)
    \/ PreparacionClearSearch
    \/ \E column \in SortColumns : PreparacionSortByColumn(column)
    \/ \E checked \in BOOLEAN : handleSelectAll(checked)
    \/ \E orderId \in OrderIds : handleSelectOrder(orderId)
    \/ PrepareLabels

SpecSelection == InitSelection /\ [][NextSelection]_vars

(***************************************************************************)
(* Bulk fulfillment: BulkFulfillModal, handleBulkFulfill of Pedidos, and   *)
(* POST /api/orders/:id/fulfill.  A request is "sent" until the server     *)
(* takes it up; the server makes it "applied" (the order is fulfilled at   *)
(* the source) or "refused"; the answer reaching the client makes it       *)
(* "resolved" or "rejected".                                               *)
(***************************************************************************)
\* The carrier input of a row; the tracking-number input calls the same handler.
TypedFields == {"trackingCompany"}
TypedValues == {"", "Starken"}

\* "Marcar como Enviados" of the bulk bar, and the effect of the modal that
\* runs when it opens.
openBulkModal ==
    /\ page = "pedidos"
    /\ ~isBulkModalOpen
    /\ selectedOrders # {}
    /\ isBulkModalOpen' = TRUE
    /\ trackingPayload' = initialPayload(selectedOrdersList)
    /\ UNCHANGED <<listVars, storeVars, labelVars, ruleVars, editVars, otherVars, isBulkFulfilling, requests, orphans, outcome, requestBodies>>

\* The X and Cancelar buttons of the modal.
closeBulkModal ==
    /\ isBulkModalOpen
    /\ ~isBulkFulfilling
    /\ isBulkModalOpen' = FALSE
    /\ UNCHANGED <<listVars, storeVars, labelVars, ruleVars, editVars, otherVars, isBulkFulfilling, trackingPayload,
                   requests, orphans, outcome, requestBodies>>

handleInputChange(orderId, field, value) ==
    /\ isBulkModalOpen
    /\ ~isBulkFulfilling
    /\ orderId \in Ids(selectedOrdersList)
    /\ orderId \in DOMAIN trackingPayload
    /\ trackingPayload[orderId][field] # value
    /\ trackingPayload' = [trackingPayload EXCEPT ![orderId][field] = value]
    /\ UNCHANGED <<listVars, storeVars, labelVars, ruleVars, editVars, otherVars, isBulkModalOpen, isBulkFulfilling,
                   requests, orphans, outcome, requestBodies>>

\* The copy button next to the carrier of the first row.
fillAllCompanies ==
    /\ isBulkModalOpen
    /\ selectedOrdersList # << >>
    /\ selectedOrdersList[1].id \in DOMAIN trackingPayload
    /\ trackingPayload[selectedOrdersList[1].id].trackingCompany # ""
    /\ LET company == trackingPayload[selectedOrdersList[1].id].trackingCompany
       IN  trackingPayload' =
             [id \in DOMAIN trackingPayload |->
                IF trackingPayload[id].trackingCompany = ""
                THEN [trackingPayload[id] EXCEPT !.trackingCompany = company]
                ELSE trackingPayload[id]]
    /\ UNCHANGED <<listVars, storeVars, labelVars, ruleVars, editVars, otherVars, isBulkModalOpen, isBulkFulfilling,
                   requests, orphans, outcome, requestBodies>>

\* A request body that takes the order's edited address along.
fulfillBody_WithAddress(orderId, data) ==
    Obj([k \in TrackingFields \cup {"shippingAddress"} |->
            IF k = "shippingAddress"
            THEN OptProp(getStoredEdit(localStorage, orderId), "address")
            ELSE IF data[k] = "" THEN Undefined ELSE Str(data[k])])

\* The object handleBulkFulfill hands to ordersApi.fulfill for one order:
\* an empty input becomes undefined.
fulfillBody(orderId, data) ==
    Obj([k \in TrackingFields |-> IF data[k] = "" THEN Undefined ELSE Str(data[k])])

\* Promise.all over the requests of a batch.
PromiseAll_AllSettled(batch) ==
    IF \A id \in OrderIds : batch[id] \in {"none", "resolved", "rejected"}
    THEN "fulfilled" ELSE "pending"

PromiseAll(batch) ==
    IF \E id \in OrderIds : batch[id] = "rejected" THEN "rejected"
    ELSE IF \A id \in OrderIds : batch[id] \in {"none", "resolved"} THEN "fulfilled"
    ELSE "pending"

\* handleBulkFulfill after its await: the batch stands as given.  Once the
\* batch has reported, later answers change nothing.
\* The alert of the catch block of handleBulkFulfill.
BulkFailureAlert == "Error al procesar algunos pedidos. Por favor revisa la consola."

handleBulkFulfillResumes(batch) ==
    IF outcome = "none" /\ PromiseAll(batch) = "fulfilled"
    THEN /\ isBulkModalOpen' = FALSE
         /\ selectedOrders' = {}
         /\ Pedidos_fetchOrders(TRUE)
         /\ outcome' = "success"
         /\ isBulkFulfilling' = FALSE
         /\ UNCHANGED <<loading, trackingPayload>>
    ELSE IF outcome = "none" /\ PromiseAll(batch) = "rejected"
    THEN /\ outcome' = "failed"
         /\ isBulkFulfilling' = FALSE
         /\ UNCHANGED <<isBulkModalOpen, selectedOrders, loading, refreshing, error, fetches, latestFetch,
                        trackingPayload>>
    ELSE UNCHANGED <<isBulkModalOpen, selectedOrders, loading, refreshing, error, fetches, latestFetch,
                     trackingPayload, outcome, isBulkFulfilling>>

\* The submit of the modal: handleBulkFulfill up to its await.  The requests
\* of an earlier batch that the server has not taken up stay at the server.
\* With an empty payload there is nothing to wait for.
handleBulkFulfillUpTo(cap) ==
    /\ isBulkModalOpen
    /\ ~isBulkFulfilling
    /\ DOMAIN trackingPayload = {} => Len(fetches) < cap
    /\ LET batch == [id \in OrderIds |-> IF id \in DOMAIN trackingPayload THEN "sent" ELSE "none"]
       IN  /\ requests' = batch
           /\ requestBodies' =
                 [id \in OrderIds |->
                    IF id \in DOMAIN trackingPayload
                    THEN JSONstringify(fulfillBody(id, trackingPayload[id]))
                    ELSE Null]
           /\ orphans' = orphans \cup {id \in OrderIds : requests[id] = "sent"}
           /\ IF DOMAIN trackingPayload = {}
              THEN /\ isBulkModalOpen' = FALSE
                   /\ selectedOrders' = {}
                   /\ Pedidos_fetchOrders(TRUE)
                   /\ outcome' = "success"
                   /\ UNCHANGED <<isBulkFulfilling, loading>>
              ELSE /\ isBulkFulfilling' = TRUE
                   /\ outcome' = "none"
                   /\ UNCHANGED <<isBulkModalOpen, selectedOrders, loading, refreshing, error,
                                  fetches, latestFetch>>
    /\ UNCHANGED <<page, source, fetchedOrders, searchQuery, fulfillmentFilter, dateFilter,
                   sortOrder, sortBy, requestedLabels, trackingPayload,
                   storeVars, labelVars, ruleVars, editVars, editedCount, dashVars, formVars>>

handleBulkFulfill == handleBulkFulfillUpTo(MaxInFlight)

\* The server creates the fulfillment.
ServerFulfills(id) ==
    /\ requests[id] = "sent"
    /\ requests' = [requests EXCEPT ![id] = "applied"]
    /\ requestBodies' = [requestBodies EXCEPT ![id] = Null]
    /\ source' = [source EXCEPT ![id] = Str("fulfilled")]
    /\ UNCHANGED <<page, fetchedOrders, loading, refreshing, error, fetches, searchQuery,
                   fulfillmentFilter, dateFilter, sortOrder, sortBy, selectedOrders,
                   requestedLabels, storeVars, labelVars, ruleVars, editVars, otherVars,
                   isBulkModalOpen, isBulkFulfilling, trackingPayload, orphans, outcome>>

\* The server answers 500.
ServerRefuses(id) ==
    /\ requests[id] = "sent"
    /\ requests' = [requests EXCEPT ![id] = "refused"]
    /\ requestBodies' = [requestBodies EXCEPT ![id] = Null]
    /\ UNCHANGED <<listVars, storeVars, labelVars, ruleVars, editVars, otherVars,
                   isBulkModalOpen, isBulkFulfilling, trackingPayload, orphans, outcome>>

\* The server takes up a request whose batch is over, and fulfills or not.
ServerFulfillsOrphan(id) ==
    /\ id \in orphans
    /\ orphans' = orphans \ {id}
    /\ source' = [source EXCEPT ![id] = Str("fulfilled")]
    /\ UNCHANGED <<page, fetchedOrders, loading, refreshing, error, fetches, searchQuery,
                   fulfillmentFilter, dateFilter, sortOrder, sortBy, selectedOrders,
                   requestedLabels, storeVars, labelVars, ruleVars, editVars, otherVars,
                   isBulkModalOpen, isBulkFulfilling, trackingPayload, requests, outcome, requestBodies>>

ServerRefusesOrphan(id) ==
    /\ id \in orphans
    /\ orphans' = orphans \ {id}
    /\ UNCHANGED <<listVars, storeVars, labelVars, ruleVars, editVars, otherVars,
                   isBulkModalOpen, isBulkFulfilling, trackingPayload, requests, outcome, requestBodies>>

\* The answer of a fulfilled request reaches fulfillOrder.
FulfillResolvesUpTo(id, cap) ==
    /\ requests[id] = "applied"
    /\ requests' = [requests EXCEPT ![id] = "resolved"]
    /\ (outcome = "none" /\ PromiseAll(requests') = "fulfilled") => Len(fetches) < cap
    /\ handleBulkFulfillResumes(requests')
    /\ UNCHANGED <<page, source, fetchedOrders, searchQuery, fulfillmentFilter, dateFilter,
                   sortOrder, sortBy, requestedLabels, storeVars, labelVars, ruleVars, editVars, editedCount, dashVars, formVars, orphans, requestBodies>>

FulfillResolves(id) == FulfillResolvesUpTo(id, MaxInFlight)

\* The 500 reaches fulfillOrder: handleApiError throws.
FulfillRejects(id) ==
    /\ requests[id] = "refused"
    /\ requests' = [requests EXCEPT ![id] = "rejected"]
    /\ handleBulkFulfillResumes(requests')
    /\ UNCHANGED <<page, source, fetchedOrders, searchQuery, fulfillmentFilter, dateFilter,
                   sortOrder, sortBy, requestedLabels, storeVars, labelVars, ruleVars, editVars, editedCount, dashVars, formVars, orphans, requestBodies>>

\* No answer within the timeout of the client: handleApiError throws.  A
\* request the server has not taken up stays at the server.
FulfillTimesOut(id) ==
    /\ requests[id] \in {"sent", "applied"}
    /\ requests' = [requests EXCEPT ![id] = "rejected"]
    /\ orphans' = IF requests[id] = "sent" THEN orphans \cup {id} ELSE orphans
    /\ requestBodies' = [requestBodies EXCEPT ![id] = Null]
    /\ handleBulkFulfillResumes(requests')
    /\ UNCHANGED <<page, source, fetchedOrders, searchQuery, fulfillmentFilter, dateFilter,
                   sortOrder, sortBy, requestedLabels, storeVars, labelVars, ruleVars, editVars, editedCount, dashVars, formVars>>

(***************************************************************************)
(* The orders list under an operator who selects, refreshes and fulfills   *)
(* in bulk.                                                                *)
(***************************************************************************)
InitBulk ==
    /\ page = "pedidos"
    /\ source = InitialSource
    /\ fetchedOrders = << >>
    /\ loading = TRUE
    /\ refreshing = FALSE
    /\ error = Null
    /\ fetches = << NoResponse >>
    /\ latestFetch = NoResponse
    /\ searchQuery = ""
    /\ fulfillmentFilter = "all"
    /\ dateFilter = "all"
    /\ sortOrder = "desc"
    /\ sortBy = "purchase"
    /\ selectedOrders = {}
    /\ requestedLabels = ""
    /\ StoreIdle
    /\ BulkIdle
    /\ RulesIdle
    /\ EditIdle
    /\ OthersIdle
    /\ LabelsIdle

NextBulk ==
    \/ \E k \in 1..Len(fetches) : ServerReturnsOrders(k)
    \/ \E k \in 1..Len(fetches) : GetOrdersFails(k)
    \/ \E k \in 1..Len(fetches) : Pedidos_fetchOrdersResumes(k)
    \/ PedidosSync
    \/ PedidosRetry
    \/ \E v \in FulfillmentFilters : setFulfillmentFilter(v)
    \/ \E id \in OrderIds : toggleOrder(id)
    \/ toggleAll
    \/ PedidosDeselectAll
    \/ openBulkModal
    \/ closeBulkModal
    \/ \E orderId \in OrderIds, field \in TypedFields, value \in TypedValues :
          handleInputChange(orderId, field, value)
    \/ fillAllCompanies
    \/ handleBulkFulfill
    \/ \E id \in OrderIds : ServerFulfills(id)
    \/ \E id \in OrderIds : ServerRefuses(id)
    \/ \E id \in OrderIds : ServerFulfillsOrphan(id)
    \/ \E id \in OrderIds : ServerRefusesOrphan(id)
    \/ \E id \in OrderIds : FulfillResolves(id)
    \/ \E id \in OrderIds : FulfillRejects(id)
    \/ \E id \in OrderIds : FulfillTimesOut(id)

SpecBulk == InitBulk /\ [][NextBulk]_vars

(***************************************************************************)
(* The orders list with fetches that overlap: the operator refreshes, and  *)
(* a bulk fulfillment that succeeds refreshes again while the answer to    *)
(* the earlier refresh is still on its way.                                *)
(***************************************************************************)
\* GET /api/orders calls in flight at once, where they overlap.
MaxOverlap == 2

InitRefresh == InitBulk

NextRefresh ==
    \/ \E k \in 1..Len(fetches) : ServerReturnsOrders(k)
    \/ \E k \in 1..Len(fetches) : GetOrdersFails(k)
    \/ \E k \in 1..Len(fetches) : Pedidos_fetchOrdersResumes(k)
    \/ PedidosSyncUpTo(MaxOverlap)
    \/ PedidosRetry
    \/ toggleAll
    \/ openBulkModal
    \/ handleBulkFulfillUpTo(MaxOverlap)
    \/ \E id \in OrderIds : ServerFulfills(id)
    \/ \E id \in OrderIds : FulfillResolvesUpTo(id, MaxOverlap)

SpecRefresh == InitRefresh /\ [][NextRefresh]_vars

(***************************************************************************)
(* pages/ImpresionEtiquetas.tsx: the sheets of labels.                     *)
(***************************************************************************)
MaxLabels == 26

labelsPerPage == 12

\* Array.prototype.slice(start, end) on 0-based indexes.
slice(list, start, end) ==
    SubSeq(list, start + 1, IF end < Len(list) THEN end ELSE Len(list))

\* A layout that fills the cells left over on the last sheet.
RECURSIVE orderChunks_Padded(_)
orderChunks_Padded(list) ==
    IF list = << >> THEN << >>
    ELSE IF Len(list) < labelsPerPage
    THEN << list \o [i \in 1..(labelsPerPage - Len(list)) |-> Null] >>
    ELSE << slice(list, 0, labelsPerPage) >>
         \o orderChunks_Padded(slice(list, labelsPerPage, Len(list)))

\* The loop of orderChunks from index i on.
RECURSIVE ChunksFrom(_, _)
ChunksFrom(list, i) ==
    IF i < Len(list)
    THEN << slice(list, i, i + labelsPerPage) >> \o ChunksFrom(list, i + labelsPerPage)
    ELSE << >>

orderChunks(list) == ChunksFrom(list, 0)

\* The orders a fetch of the labels page can leave in its state: consecutive
\* order numbers, newest or oldest first.
LabelOrderLists ==
    {[i \in 1..n |-> [id |-> IF newestFirst THEN first + n - i ELSE first + i - 1]] :
        n \in 0..MaxLabels, first \in {1001, 1002, 1003}, newestFirst \in BOOLEAN}

\* fetchData of the labels page completes, and the page renders the sheets:
\* one label per entry of each chunk, in order.
LabelsFetched(list) ==
    /\ labelOrders' = list
    /\ printedPages' = orderChunks(list)
    /\ UNCHANGED <<storeVars, listVars, bulkVars, ruleVars, editVars, otherVars>>

InitLabels ==
    /\ labelOrders = << >>
    /\ printedPages = orderChunks(<< >>)
    /\ StoreIdle
    /\ NoPageMounted
    /\ BulkIdle
    /\ RulesIdle
    /\ EditIdle
    /\ OthersIdle

NextLabels == \E list \in LabelOrderLists : LabelsFetched(list)

SpecLabels == InitLabels /\ [][NextLabels]_vars

(***************************************************************************)
(* The dispatch-date rule under every order date and every list of line    *)
(* items, and addBusinessDays under every start and number of days.        *)
(***************************************************************************)
MaxStartDay == 7
MaxDays == 20
MaxItems == 2

\* Dates: the days from a Monday on, early, during and late in the day.
RuleDates == {d * 24 + h : d \in 0..MaxStartDay, h \in {0, 9, 23}}

\* Line items as GET /api/orders maps them: a title and no name.
LineItemTitles == {"Cuna colecho", "Silla a pedido", "PEDIDO especial", ""}

RECURSIVE ListsUpTo(_, _)
ListsUpTo(S, n) ==
    IF n = 0 THEN {<< >>}
    ELSE LET shorter == ListsUpTo(S, n - 1)
         IN  shorter \cup {Append(l, x) : l \in {k \in shorter : Len(k) = n - 1}, x \in S}

LineItemLists == ListsUpTo({Obj([title |-> Str(t)]) : t \in LineItemTitles}, MaxItems)

\* A row of the orders list is rendered for the order drawn: its dispatch
\* date and its badge.
CalculateShippingDate ==
    /\ ruleOp = "none"
    /\ businessDaysToAdd' = IF hasOrderSpecificItem(orderItems) THEN 20 ELSE 3
    /\ shippingDate' = calculateShippingDate(orderDate, orderItems)
    /\ aPedidoBadge' = isAPedido(orderItems)
    /\ ruleOp' = "calculateShippingDate"
    /\ UNCHANGED <<orderDate, orderItems, storeVars, listVars, bulkVars, labelVars, editVars, otherVars>>

\* addBusinessDays is called with the date and the number of days drawn.
AddBusinessDays ==
    /\ ruleOp = "none"
    /\ shippingDate' = addBusinessDays(orderDate, businessDaysToAdd)
    /\ ruleOp' = "addBusinessDays"
    /\ UNCHANGED <<orderDate, orderItems, businessDaysToAdd, aPedidoBadge,
                   storeVars, listVars, bulkVars, labelVars, editVars, otherVars>>

InitRules ==
    /\ orderDate \in RuleDates
    /\ orderItems \in LineItemLists
    /\ businessDaysToAdd \in 1..MaxDays
    /\ shippingDate = 0
    /\ aPedidoBadge = FALSE
    /\ ruleOp = "none"
    /\ StoreIdle
    /\ NoPageMounted
    /\ BulkIdle
    /\ LabelsIdle
    /\ EditIdle
    /\ OthersIdle

NextRules ==
    \/ CalculateShippingDate
    \/ AddBusinessDays

SpecRules == InitRules /\ [][NextRules]_vars

(***************************************************************************)
(* Claims about the dispatch-date rule.                                    *)
(***************************************************************************)
IsWeekday(date) == getDay(date) \in 1..5

\* C11: whatever the creation date and the line items, the computed
\* dispatch date is a Monday, Tuesday, Wednesday, Thursday or Friday.
C11_DispatchOnWeekday ==
    ruleOp = "calculateShippingDate" => IsWeekday(shippingDate)

\* The dispatch date of an order created on a Saturday was computed.
C11_Witness ==
    /\ ruleOp = "calculateShippingDate"
    /\ getDay(orderDate) = 6
    /\ orderItems # << >>

\* C12: addBusinessDays(start, N), N >= 1, returns the first date D after
\* start with exactly N Monday-to-Friday days in (start, D]: the start day
\* is not counted, weekend days are skipped, the time of day is kept; from
\* a Monday, N = 3 gives start + 3 days and N = 20 gives start + 28 days.
C12_AddBusinessDays ==
    ruleOp = "addBusinessDays" =>
        LET elapsed == (shippingDate - orderDate) \div 24
        IN  /\ shippingDate > orderDate
            /\ shippingDate = orderDate + elapsed * 24
            /\ IsWeekday(shippingDate)
            /\ Cardinality({d \in 1..elapsed : IsWeekday(orderDate + d * 24)}) = businessDaysToAdd
            /\ (getDay(orderDate) = 1 /\ businessDaysToAdd = 3) => elapsed = 3
            /\ (getDay(orderDate) = 1 /\ businessDaysToAdd = 20) => elapsed = 28

\* Twenty business days were added to a Monday.
C12_Witness ==
    /\ ruleOp = "addBusinessDays"
    /\ getDay(orderDate) = 1
    /\ businessDaysToAdd = 20
    /\ shippingDate = orderDate + 28 * 24

\* s contains word, whatever the case of each letter of s.
ContainsAnyCase(s, word) ==
    \E i \in 0..(Len(s) - Len(word)) :
        \A j \in 1..Len(word) :
            \E k \in 1..Len(UpperLetters) :
                /\ CharAt(word, j) = CharAt(UpperLetters, k)
                /\ CharAt(s, i + j) \in {CharAt(UpperLetters, k), CharAt(LowerLetters, k)}

\* C13: an order gets 20 business days exactly when one of its line items
\* has a title containing "PEDIDO" in any letter case, else 3; no line items
\* means 3; and the badge of the order's row agrees with that.
C13_Classification ==
    ruleOp = "calculateShippingDate" =>
        LET special == \E i \in 1..Len(orderItems) : ContainsAnyCase(orderItems[i].p.title.v, "PEDIDO")
        IN  /\ businessDaysToAdd = IF special THEN 20 ELSE 3
            /\ orderItems = << >> => businessDaysToAdd = 3
            /\ shippingDate = addBusinessDays(orderDate, businessDaysToAdd)
            /\ aPedidoBadge = special

\* Two line items, only the second one matching, in lower case.
C13_Witness ==
    /\ ruleOp = "calculateShippingDate"
    /\ Len(orderItems) = 2
    /\ orderItems[1].p.title = Str("Cuna colecho")
    /\ orderItems[2].p.title = Str("Silla a pedido")
    /\ businessDaysToAdd = 20
    /\ aPedidoBadge

\* C29: the dispatch date is monotone in the creation timestamp: an order
\* of the same classification created no later than the order drawn, time
\* of day included, has a dispatch timestamp no later than that order's.
C29_DispatchMonotone ==
    ruleOp = "calculateShippingDate" =>
        \A earlier \in RuleDates :
            earlier <= orderDate =>
                calculateShippingDate(earlier, orderItems) <= shippingDate

(***************************************************************************)
(* The filtered list of both pages over fetched order sets with orders on  *)
(* the boundary of the date range, orders with equal sort keys, customers  *)
(* with and without an e-mail address and orders with no customer, under   *)
(* an operator who filters, searches and sorts.                            *)
(***************************************************************************)
MaxFetched == 3

\* Saturday 10:00, seven days before Now to the hour.
OnBoundary == Now - 7 * 24

CustomerRosana == Obj([firstName |-> Str("Rosana"), lastName |-> Str(""), email |-> Null])

FetchedOrder(i) ==
    [id |-> i,
     name |-> Str("#" \o ToString(1000 + i)),
     orderNumber |-> 1000 + i,
     createdAt |-> CASE i = 1 -> OnBoundary
                     [] i = 2 -> OnBoundary - 1
                     [] i = 3 -> OnBoundary
                     [] i = 4 -> OnBoundary + 24
                     [] OTHER -> Now - 15 * 24 - 1,
     fulfillmentStatus |-> CASE i = 1 -> Null
                             [] i = 2 -> Str("unfulfilled")
                             [] i = 3 -> Str("unfulfilled")
                             [] i = 4 -> Str("fulfilled")
                             [] OTHER -> Str("partial"),
     customer |-> CASE i \in {1, 4} -> CustomerAna
                    [] i = 3 -> CustomerRosana
                    [] OTHER -> Null,
     shippingAddress |-> ShopifyAna,
     lineItems |-> IF i = 2 THEN << Obj([title |-> Str("Silla a pedido")]) >>
                   ELSE << Obj([title |-> Str("Cuna colecho")]) >>]

FetchedOrderLists ==
    {list \in ListsUpTo({FetchedOrder(i) : i \in 1..5}, MaxFetched) :
        \A i, j \in 1..Len(list) : i # j => list[i].id # list[j].id}

\* What the operator types in the search box.
FilterQueries == {"", "Ana", "1002", "a R"}

InitFilter ==
    /\ page \in ListPages
    /\ fetchedOrders \in FetchedOrderLists
    /\ page = "preparacion" => \A i \in 1..Len(fetchedOrders) : IsPending(fetchedOrders[i])
    /\ source = InitialSource
    /\ loading = FALSE
    /\ refreshing = FALSE
    /\ error = Null
    /\ fetches = << >>
    /\ latestFetch = OkResponse(fetchedOrders)
    /\ searchQuery = ""
    /\ fulfillmentFilter = "all"
    /\ dateFilter = "all"
    /\ sortOrder = IF page = "pedidos" THEN "desc" ELSE "asc"
    /\ sortBy = IF page = "pedidos" THEN "purchase" ELSE "dispatch"
    /\ selectedOrders = {}
    /\ requestedLabels = ""
    /\ StoreIdle
    /\ BulkIdle
    /\ RulesIdle
    /\ EditIdle
    /\ OthersIdle
    /\ LabelsIdle

NextFilter ==
    \/ \E q \in FilterQueries : setSearchQuery(q)
    \/ \E v \in FulfillmentFilters : setFulfillmentFilter(v)
    \/ \E v \in DateFilters : setDateFilter(v)
    \/ PedidosToggleSortOrder
    \/ \E column \in SortColumns : PedidosSortByColumn(column)
    \/ PedidosClearFilters
    \/ \E q \in FilterQueries : setSearchTerm(q)
    \/ PreparacionClearSearch
    \/ \E column \in SortColumns : PreparacionSortByColumn(column)

SpecFilter == InitFilter /\ [][NextFilter]_vars

\* The useMemo of the mounted page over another list and filter state.
FilteredOrdersOf(list, f) ==
    IF page = "pedidos" THEN PedidosFilteredOrders(list, f)
    ELSE PreparacionFilteredOrders(list, f)

\* One filter step of Pedidos alone: the other two are switched off.
StatusStep(list) ==
    SelectSeq(list, LAMBDA o : PedidosMatches(o, [Filters EXCEPT !.dateFilter = "all",
                                                                  !.searchQuery = ""]))

DateStep(list) ==
    SelectSeq(list, LAMBDA o : PedidosMatches(o, [Filters EXCEPT !.fulfillmentFilter = "all",
                                                                  !.searchQuery = ""]))

SearchStep(list) ==
    IF page = "pedidos"
    THEN SelectSeq(list, LAMBDA o : PedidosMatches(o, [Filters EXCEPT !.fulfillmentFilter = "all",
                                                                       !.dateFilter = "all"]))
    ELSE SelectSeq(list, LAMBDA o : PreparacionMatches(o, Filters))

Range(list) == {list[i] : i \in 1..Len(list)}

IndexOf(list, id) == CHOOSE k \in 1..Len(list) : list[k].id = id

\* C14: for every fetched order set and every filter state, the filtered
\* result holds only orders of the fetched set, each at most once, and
\* filtering the filtered result with the same filter state returns the
\* same list.
C14_FilterSubsetIdempotent ==
    /\ \A i \in 1..Len(filteredOrders) : filteredOrders[i] \in Range(fetchedOrders)
    /\ \A i, j \in 1..Len(filteredOrders) :
          i # j => filteredOrders[i].id # filteredOrders[j].id
    /\ FilteredOrdersOf(filteredOrders, Filters) = filteredOrders

\* Three fetched orders, two of them with equal sort keys, reduced to those
\* two by the status filter and the search text together.
C14_Witness ==
    /\ page = "pedidos"
    /\ Ids(fetchedOrders) = {1, 3, 4}
    /\ fulfillmentFilter = "pending"
    /\ dateFilter = "7days"
    /\ searchQuery = "Ana"
    /\ Ids(filteredOrders) = {1, 3}

\* The predicates of the filter panel, as the specification words them.
StatusHolds(o) ==
    CASE fulfillmentFilter = "pending" -> o.fulfillmentStatus \in {Null, Str("unfulfilled")}
      [] fulfillmentFilter = "fulfilled" -> o.fulfillmentStatus = Str("fulfilled")
      [] OTHER -> TRUE

DateHolds(o) ==
    CASE dateFilter = "7days" -> o.createdAt >= Now - 7 * 24
      [] dateFilter = "15days" -> o.createdAt >= Now - 15 * 24
      [] OTHER -> TRUE

SameLetter(a, b) ==
    \/ a = b
    \/ \E k \in 1..Len(UpperLetters) :
          {a, b} = {CharAt(UpperLetters, k), CharAt(LowerLetters, k)}

ContainsIgnoringCase(s, q) ==
    \E i \in 0..(Len(s) - Len(q)) :
        \A j \in 1..Len(q) : SameLetter(CharAt(s, i + j), CharAt(q, j))

SearchHolds(o) ==
    LET fields == {o.name, Str(ToString(o.orderNumber)), OptProp(o.customer, "firstName"),
                   OptProp(o.customer, "lastName"), OptProp(o.customer, "email")}
    IN  \E v \in fields : v.t = "string" /\ ContainsIgnoringCase(v.v, searchQuery)

\* C15: the filtered result holds exactly the fetched orders that satisfy
\* the status filter, the date range (boundary included) and the search
\* text (some one of display name, order number, first name, last name and
\* e-mail contains the query in any letter case) together, and the three
\* filters give the same set in whichever order they are applied.
C15_ExactlyTheMatching ==
    /\ Ids(filteredOrders) =
          {o.id : o \in {x \in Range(fetchedOrders) :
                            StatusHolds(x) /\ DateHolds(x) /\ SearchHolds(x)}}
    /\ \A result \in {StatusStep(DateStep(SearchStep(fetchedOrders))),
                      StatusStep(SearchStep(DateStep(fetchedOrders))),
                      DateStep(StatusStep(SearchStep(fetchedOrders))),
                      DateStep(SearchStep(StatusStep(fetchedOrders))),
                      SearchStep(StatusStep(DateStep(fetchedOrders))),
                      SearchStep(DateStep(StatusStep(fetchedOrders)))} :
          Ids(result) = Ids(filteredOrders)

SortedBy(list, by, direction) ==
    \A i, j \in 1..Len(list) :
        i < j => IF direction = "desc" THEN SortKey(list[i], by) >= SortKey(list[j], by)
                 ELSE SortKey(list[i], by) <= SortKey(list[j], by)

\* C16: the filtered list is ordered by the selected key in the selected
\* direction, two orders with equal keys keep the relative order they had
\* in the fetched input, ascending as well as descending, and no other sort
\* key or direction changes which orders are in the list.
C16_SortedAndStable ==
    /\ SortedBy(filteredOrders, sortBy, sortOrder)
    /\ \A i, j \in 1..Len(filteredOrders) :
          (i < j /\ SortKey(filteredOrders[i], sortBy) = SortKey(filteredOrders[j], sortBy))
             => IndexOf(fetchedOrders, filteredOrders[i].id)
                  < IndexOf(fetchedOrders, filteredOrders[j].id)
    /\ \A by \in SortColumns, direction \in {"asc", "desc"} :
          Ids(FilteredOrdersOf(fetchedOrders, [Filters EXCEPT !.sortBy = by,
                                                               !.sortOrder = direction]))
             = Ids(filteredOrders)

\* Sorted by dispatch date, newest first: orders 3 and 1 share a dispatch
\* date, order 4 (created a day later) falls on the same date, order 2 is
\* twenty business days out; the three equal keys stay in fetched order.
C16_Witness ==
    /\ page = "pedidos"
    /\ sortBy = "dispatch"
    /\ sortOrder = "desc"
    /\ fetchedOrders = << FetchedOrder(3), FetchedOrder(4), FetchedOrder(1) >>
    /\ filteredOrders = fetchedOrders
    /\ SortKey(FetchedOrder(3), "dispatch") = SortKey(FetchedOrder(4), "dispatch")
    /\ SortKey(FetchedOrder(3), "purchase") # SortKey(FetchedOrder(4), "purchase")

(***************************************************************************)
(* pages/PreparacionEnvio.tsx: the edit dialog of an order, under an       *)
(* operator who opens it, types, submits, reverts and cancels.             *)
(***************************************************************************)
\* String.prototype.trim
RECURSIVE trimStart(_)
trimStart(s) ==
    IF s # "" /\ CharAt(s, 1) = " " THEN trimStart(SubSeq(s, 2, Len(s))) ELSE s

RECURSIVE trimEnd(_)
trimEnd(s) ==
    IF s # "" /\ CharAt(s, Len(s)) = " " THEN trimEnd(SubSeq(s, 1, Len(s) - 1)) ELSE s

trim(s) == trimEnd(trimStart(s))

\* String.prototype.split(/\s+/)
RECURSIVE splitWhitespace(_)
splitWhitespace(s) ==
    IF \A i \in 1..Len(s) : CharAt(s, i) # " " THEN << s >>
    ELSE LET i == CHOOSE k \in 1..Len(s) :
                     CharAt(s, k) = " " /\ \A j \in 1..(k - 1) : CharAt(s, j) # " "
         IN  << SubSeq(s, 1, i - 1) >> \o splitWhitespace(trimStart(SubSeq(s, i, Len(s))))

getFullName(address) ==
    IF ~Truthy(address) THEN ""
    ELSE trim(Or(Prop(address, "firstName"), Str("")).v \o " "
              \o Or(Prop(address, "lastName"), Str("")).v)

\* What the operator types.
TypedAddressFields == {"address1"}
TypedAddresses == {"Pasaje 3"}
TypedNames == {" Ana  Rojas Paz "}
TypedNotes == {"timbre 2"}

DialogClosed ==
    /\ editingOrder' = 0
    /\ formData' = Null
    /\ fullName' = ""
    /\ notes' = ""
    /\ isNameEditable' = FALSE

\* The Editar button of a row, and the first render of the dialog.
setEditingOrder(id) ==
    /\ editingOrder = 0
    /\ LET modal == AddressEditModal(localStorage, orders[id])
           storedEdit == getStoredEdit(localStorage, id)
       IN  /\ ~IsThrow(modal)
           /\ editingOrder' = id
           /\ formData' = modal.formData
           /\ fullName' = IF Truthy(OptProp(storedEdit, "address"))
                          THEN getFullName(Prop(storedEdit, "address"))
                          ELSE getFullName(toEditedAddress(orders[id].shippingAddress))
           /\ notes' = modal.notes.v
           /\ isNameEditable' = FALSE
    /\ UNCHANGED <<lastEdit, submittedForm, storeVars, listVars, bulkVars, labelVars, ruleVars, otherVars>>

\* The X and Cancelar buttons and the overlay.
onClose ==
    /\ editingOrder # 0
    /\ DialogClosed
    /\ UNCHANGED <<lastEdit, submittedForm, storeVars, listVars, bulkVars, labelVars, ruleVars, otherVars>>

setFormData(field, value) ==
    /\ editingOrder # 0
    /\ Prop(formData, field) # Str(value)
    /\ formData' = Obj([k \in DOMAIN formData.p \cup {field} |->
                          IF k = field THEN Str(value) ELSE formData.p[k]])
    /\ UNCHANGED <<editingOrder, fullName, notes, isNameEditable, lastEdit, submittedForm,
                   storeVars, listVars, bulkVars, labelVars, ruleVars, otherVars>>

\* The lock button next to the name.
setIsNameEditable ==
    /\ editingOrder # 0
    /\ isNameEditable' = ~isNameEditable
    /\ UNCHANGED <<editingOrder, formData, fullName, notes, lastEdit, submittedForm,
                   storeVars, listVars, bulkVars, labelVars, ruleVars, otherVars>>

\* The name input is disabled until the lock is open.
setFullName(value) ==
    /\ editingOrder # 0
    /\ isNameEditable
    /\ fullName # value
    /\ fullName' = value
    /\ UNCHANGED <<editingOrder, formData, notes, isNameEditable, lastEdit, submittedForm,
                   storeVars, listVars, bulkVars, labelVars, ruleVars, otherVars>>

setNotes(value) ==
    /\ editingOrder # 0
    /\ notes # value
    /\ notes' = value
    /\ UNCHANGED <<editingOrder, formData, fullName, isNameEditable, lastEdit, submittedForm,
                   storeVars, listVars, bulkVars, labelVars, ruleVars, otherVars>>

\* "Guardar cambios".
handleSubmit ==
    /\ editingOrder # 0
    /\ lastEdit' = [lastEdit EXCEPT ![editingOrder] = "submit"]
    /\ submittedForm' = [submittedForm EXCEPT
                            ![editingOrder] = [formData |-> formData, fullName |-> fullName,
                                               notes |-> notes]]
    /\ LET originalAddress == toEditedAddress(orders[editingOrder].shippingAddress)
           nameParts == splitWhitespace(trim(fullName))
           firstName == nameParts[1]
           lastName == join(Tail(nameParts), " ")
           addressToSave ==
               Obj([k \in DOMAIN formData.p \cup {"firstName", "lastName", "notes"} |->
                      CASE k = "firstName" -> Str(firstName)
                        [] k = "lastName" -> Str(lastName)
                        [] k = "notes" -> Str(notes)
                        [] OTHER -> formData.p[k]])
       IN  IF ~Truthy(originalAddress)
           THEN UNCHANGED <<editingOrder, formData, fullName, notes, isNameEditable,
                            localStorage, firstSnapshot, lastSaved, lastOp>>
           ELSE /\ localStorage' = saveEditedAddress(localStorage, editingOrder, addressToSave,
                                                     originalAddress, clock)
                /\ firstSnapshot' =
                     [firstSnapshot EXCEPT
                         ![editingOrder] = IF lastSaved[editingOrder] = Null
                                           THEN originalAddress ELSE @]
                /\ lastSaved' = [lastSaved EXCEPT ![editingOrder] = addressToSave]
                /\ lastOp' = [lastOp EXCEPT ![editingOrder] = "save"]
                /\ DialogClosed
    /\ UNCHANGED <<clock, orders, listVars, bulkVars, labelVars, ruleVars, otherVars>>

\* "Revertir a original", drawn while the order has a stored edit.
handleRevert ==
    /\ editingOrder # 0
    /\ getStoredEdit(localStorage, editingOrder) # Null
    /\ localStorage' = revertToOriginal(localStorage, editingOrder)
    /\ firstSnapshot' = [firstSnapshot EXCEPT ![editingOrder] = Null]
    /\ lastSaved' = [lastSaved EXCEPT ![editingOrder] = Null]
    /\ lastOp' = [lastOp EXCEPT
                     ![editingOrder] = IF lastSaved[editingOrder] # Null
                                       THEN "save-revert" ELSE "revert"]
    /\ lastEdit' = [lastEdit EXCEPT ![editingOrder] = "revert"]
    /\ submittedForm' = [submittedForm EXCEPT ![editingOrder] = Null]
    /\ DialogClosed
    /\ UNCHANGED <<clock, orders, listVars, bulkVars, labelVars, ruleVars, otherVars>>

\* The operator leaves the page and comes back: the page mounts, fetches the
\* same orders again, and the memo of editedCount computes anew.
PreparacionReopens ==
    /\ editingOrder = 0
    /\ editedCount' = EditedCount(orders, localStorage)
    /\ UNCHANGED <<storeVars, listVars, bulkVars, labelVars, ruleVars, editVars, latestFetch,
                   dashVars, formVars>>

InitEdit ==
    /\ localStorage = [k \in {} |-> Null]
    /\ clock = 1
    /\ orders \in FetchResults
    /\ firstSnapshot = NoOrders
    /\ lastSaved = NoOrders
    /\ lastOp = [i \in OrderIds |-> "none"]
    /\ NoPageMounted
    /\ BulkIdle
    /\ RulesIdle
    /\ EditIdle
    /\ OthersIdle
    /\ LabelsIdle

NextEdit ==
    \/ \E id \in OrderIds : setEditingOrder(id)
    \/ onClose
    \/ \E field \in TypedAddressFields, value \in TypedAddresses : setFormData(field, value)
    \/ setIsNameEditable
    \/ \E value \in TypedNames : setFullName(value)
    \/ \E value \in TypedNotes : setNotes(value)
    \/ handleSubmit
    \/ handleRevert
    \/ PreparacionReopens

SpecEdit == InitEdit /\ [][NextEdit]_vars

\* C19: after the operator has submitted the edit form of an order, an
\* override for that order exists whose snapshot is the order's canonical
\* address and whose edited address is what the form held, on a first submit
\* as on a later one and for every order, one with no shipping address
\* included; after a revert no override exists and the canonical address is
\* shown again.
C19_EditLifecycle ==
    \A id \in OrderIds :
        LET record == getStoredEdit(localStorage, id)
            canonical == toEditedAddress(orders[id].shippingAddress)
            form == submittedForm[id]
            edited == Prop(record, "address")
        IN  /\ lastEdit[id] = "submit" =>
                  /\ Truthy(record)
                  /\ Prop(record, "originalAddress") = canonical
                  /\ \A k \in AddressFields \ {"firstName", "lastName"} :
                        SameValue(Prop(edited, k), Prop(form.formData, k))
                  /\ Prop(edited, "notes") = Str(form.notes)
                  /\ getFullName(edited) = join(splitWhitespace(trim(form.fullName)), " ")
            /\ lastEdit[id] = "revert" =>
                  /\ record = Null
                  /\ ~hasEditedAddress(localStorage, id)
                  /\ PreparacionRow(localStorage, orders[id]).address = canonical

\* C26: on the shipping-preparation page, after any saves and reverts made
\* through the edit dialog, the count of orders "con direccion modificada"
\* is the number of fetched orders that have an override at that moment,
\* with no new fetch in between.
C26_EditedCountCurrent ==
    editedCount = Cardinality({id \in OrderIds : hasEditedAddress(localStorage, id)})

(***************************************************************************)
(* Overrides next to bulk fulfillment: the operator's saves and reverts of *)
(* edited addresses, and the orders list where the same orders are         *)
(* selected and fulfilled in bulk.                                         *)
(***************************************************************************)
InitFrame ==
    /\ page = "pedidos"
    /\ source = InitialSource
    /\ fetchedOrders = << >>
    /\ loading = TRUE
    /\ refreshing = FALSE
    /\ error = Null
    /\ fetches = << NoResponse >>
    /\ latestFetch = NoResponse
    /\ searchQuery = ""
    /\ fulfillmentFilter = "all"
    /\ dateFilter = "all"
    /\ sortOrder = "desc"
    /\ sortBy = "purchase"
    /\ selectedOrders = {}
    /\ requestedLabels = ""
    /\ StoreIdle
    /\ BulkIdle
    /\ RulesIdle
    /\ EditIdle
    /\ OthersIdle
    /\ LabelsIdle

NextFrame ==
    \/ \E id \in OrderIds : Save(id, EditedA, toEditedAddress(ShopifyAna))
    \/ \E id \in OrderIds : Revert(id)
    \/ \E k \in 1..Len(fetches) : ServerReturnsOrders(k)
    \/ \E k \in 1..Len(fetches) : Pedidos_fetchOrdersResumes(k)
    \/ toggleAll
    \/ openBulkModal
    \/ \E orderId \in OrderIds, field \in TypedFields, value \in TypedValues :
          handleInputChange(orderId, field, value)
    \/ handleBulkFulfill
    \/ \E id \in OrderIds : ServerFulfills(id)
    \/ \E id \in OrderIds : ServerRefuses(id)
    \/ \E id \in OrderIds : FulfillResolves(id)
    \/ \E id \in OrderIds : FulfillRejects(id)

SpecFrame == InitFrame /\ [][NextFrame]_vars

\* The step is a save or a revert of the Address Override Store.
StoreOperation == localStorage' # localStorage \/ lastOp' # lastOp

NetworkUntouched ==
    UNCHANGED <<fetches, requests, requestBodies, orphans, source, fetchedOrders, orders>>

OnlyTrackingFields ==
    \A id \in OrderIds :
        requestBodies[id] # Null =>
            LET body == JSONparse(requestBodies[id])
            IN  /\ body.t = "object"
                /\ DOMAIN body.p \subseteq TrackingFields
                /\ \A k \in DOMAIN body.p : body.p[k] \in {Str(v) : v \in TypedValues \ {""}}

\* C20: no save and no revert issues or changes a network request or changes
\* a fetched order, its shipping address or the order source; and the body
\* of every fulfill request holds tracking fields only, also for an order
\* that has an override.
C20_OverridesStayLocal == [](OnlyTrackingFields) /\ [][StoreOperation => NetworkUntouched]_vars

\* A fulfill request with a carrier is on its way for an order that has an
\* override, while the override of the other order was reverted.
C20_Witness ==
    \E id \in OrderIds, other \in OrderIds :
        /\ lastSaved[id] = EditedA
        /\ requests[id] = "sent"
        /\ requestBodies[id] = JsonText(Obj([trackingCompany |-> Str("Starken")]))
        /\ lastOp[other] = "save-revert"

(***************************************************************************)
(* pages/Dashboard.tsx: fetchData awaits getOrders, getProducts and        *)
(* getCustomers together.                                                  *)
(***************************************************************************)
DashboardCalls == {"orders", "products", "customers"}

\* What GET /api/products and GET /api/customers return.
ProductsResponse == << [id |-> 1, title |-> Str("Cuna colecho")] >>
CustomersResponse == << [id |-> 1, firstName |-> Str("Ana"), lastName |-> Str("Rojas")] >>

\* What the endpoint of a call returns now.
DashboardData(call) ==
    CASE call = "orders" -> OrdersResponse(source, MaxOrders)
      [] call = "products" -> ProductsResponse
      [] call = "customers" -> CustomersResponse

\* The fixed text of the endpoint's 500 answer.
DashboardErrorLabel(call) ==
    CASE call = "orders" -> "Error al obtener pedidos"
      [] call = "products" -> "Error al obtener productos"
      [] call = "customers" -> "Error al obtener clientes"

\* The errors a call can end with: no response, or a 500 of the server.
CallErrors(call) ==
    {AxiosRequestError,
     AxiosResponseError(500, ServerErrorBody(DashboardErrorLabel(call), ShopifyErrorMessage))}

\* The three states after the await, with every answer that came in put in
\* its state whether or not the others failed.
DashboardShown_Partial(calls, shown) ==
    [c \in DashboardCalls |-> IF calls[c].t = "ok" THEN calls[c].data ELSE shown[c]]

\* The orders, products and customers states after the await of fetchData:
\* set together when all three calls returned, else left as they are.
DashboardShown(calls, shown) ==
    IF \A c \in DashboardCalls : calls[c].t = "ok"
    THEN [c \in DashboardCalls |-> calls[c].data]
    ELSE shown

\* fetchData up to its await.
Dashboard_fetchData ==
    /\ loading' = TRUE
    /\ error' = Null
    /\ dashFetch' = [c \in DashboardCalls |-> NoResponse]

\* The first render and the mount effect.
DashboardMounts ==
    /\ page # "dashboard"
    /\ page' = "dashboard"
    /\ fetchedOrders' = << >>
    /\ products' = << >>
    /\ customers' = << >>
    /\ isBulkModalOpen' = FALSE
    /\ isBulkFulfilling' = FALSE
    /\ trackingPayload' = [i \in {} |-> Null]
    /\ requests' = NoBatch
    /\ orphans' = orphans \cup {id \in OrderIds : requests[id] = "sent"}
    /\ outcome' = "none"
    /\ requestBodies' = [i \in OrderIds |-> Null]
    /\ Dashboard_fetchData
    /\ refreshing' = FALSE
    /\ fetches' = << >>
    /\ latestFetch' = Null
    /\ searchQuery' = ""
    /\ fulfillmentFilter' = "all"
    /\ dateFilter' = "all"
    /\ sortOrder' = "desc"
    /\ sortBy' = "purchase"
    /\ selectedOrders' = {}
    /\ editedCount' = 0
    /\ UNCHANGED <<source, requestedLabels, storeVars, labelVars, ruleVars, editVars, formVars>>

\* The Actualizar button, disabled while loading, and Reintentar of the
\* error banner.
DashboardRefresh ==
    /\ page = "dashboard"
    /\ ~loading
    /\ Dashboard_fetchData
    /\ UNCHANGED <<page, source, fetchedOrders, refreshing, fetches, searchQuery,
                   fulfillmentFilter, dateFilter, sortOrder, sortBy, selectedOrders,
                   requestedLabels, products, customers, editedCount, latestFetch,
                   storeVars, bulkVars, labelVars, ruleVars, editVars, formVars>>

\* fetchData after its await, with the calls as they stand.
Dashboard_fetchDataResumes(calls) ==
    LET shown == DashboardShown(calls, [orders |-> fetchedOrders, products |-> products,
                                        customers |-> customers])
    IN  /\ fetchedOrders' = shown.orders
        /\ products' = shown.products
        /\ customers' = shown.customers
        /\ loading' = FALSE
        /\ dashFetch' = Null

\* The answer to a call arrives.  Promise.all waits for the other calls, or
\* resolves with this one.
DashboardCallReturns(call) ==
    /\ page = "dashboard"
    /\ dashFetch # Null
    /\ dashFetch[call] = NoResponse
    /\ LET calls == [dashFetch EXCEPT ![call] = OkResponse(DashboardData(call))]
       IN  IF \A c \in DashboardCalls : calls[c].t = "ok"
           THEN Dashboard_fetchDataResumes(calls) /\ UNCHANGED error
           ELSE /\ dashFetch' = calls
                /\ UNCHANGED <<fetchedOrders, products, customers, loading, error>>
    /\ UNCHANGED <<page, source, refreshing, fetches, searchQuery, fulfillmentFilter,
                   dateFilter, sortOrder, sortBy, selectedOrders, requestedLabels,
                   editedCount, latestFetch, storeVars, bulkVars, labelVars, ruleVars,
                   editVars, formVars>>

\* A call fails: handleApiError throws, Promise.all rejects at once and the
\* catch block of fetchData runs.  The answers still to come are dropped.
DashboardCallFails(call, axiosError) ==
    /\ page = "dashboard"
    /\ dashFetch # Null
    /\ dashFetch[call] = NoResponse
    /\ Dashboard_fetchDataResumes([dashFetch EXCEPT
                                      ![call] = ErrorResponse(handleApiError(axiosError))])
    /\ error' = Str(handleApiError(axiosError))
    /\ UNCHANGED <<page, source, refreshing, fetches, searchQuery, fulfillmentFilter,
                   dateFilter, sortOrder, sortBy, selectedOrders, requestedLabels,
                   editedCount, latestFetch, storeVars, bulkVars, labelVars, ruleVars,
                   editVars, formVars>>

(***************************************************************************)
(* The pages under failing calls: the operator moves between the orders    *)
(* list, the preparation list and the dashboard, edits addresses and       *)
(* fulfills in bulk, while fetches and fulfill requests fail with no       *)
(* response or with a 500 of the server.                                   *)
(***************************************************************************)
InitFailures ==
    /\ NoPageMounted
    /\ StoreIdle
    /\ BulkIdle
    /\ RulesIdle
    /\ EditIdle
    /\ OthersIdle
    /\ LabelsIdle

NextFailures ==
    \/ \E p \in ListPages : Navigate(p)
    \/ DashboardMounts
    \/ DashboardRefresh
    \/ \E call \in DashboardCalls : DashboardCallReturns(call)
    \/ \E call \in DashboardCalls : \E axiosError \in CallErrors(call) :
          DashboardCallFails(call, axiosError)
    \/ \E k \in 1..Len(fetches) : ServerReturnsOrders(k)
    \/ \E k \in 1..Len(fetches) : GetOrdersFails(k)
    \/ \E k \in 1..Len(fetches) : ServerRejectsOrders(k)
    \/ \E k \in 1..Len(fetches) : Pedidos_fetchOrdersResumes(k)
    \/ \E k \in 1..Len(fetches) : Preparacion_fetchOrdersResumes(k)
    \/ PedidosSync
    \/ PedidosRetry
    \/ PreparacionRetry
    \/ \E id \in OrderIds : Save(id, EditedA, toEditedAddress(ShopifyAna))
    \/ \E id \in OrderIds : Revert(id)
    \/ toggleAll
    \/ openBulkModal
    \/ handleBulkFulfill
    \/ \E id \in OrderIds : ServerFulfills(id)
    \/ \E id \in OrderIds : ServerRefuses(id)
    \/ \E id \in OrderIds : ServerFulfillsOrphan(id)
    \/ \E id \in OrderIds : FulfillResolves(id)
    \/ \E id \in OrderIds : FulfillRejects(id)

SpecFailures == InitFailures /\ [][NextFailures]_vars

(***************************************************************************)
(* pages/PedidoDetalle.tsx and components/FulfillmentForm.tsx: the page of *)
(* one order and the form that marks it as sent.                           *)
(***************************************************************************)
TypedTrackingNumbers == {"", " ", "123", " 123 "}
TypedTrackingUrls == {"", "https://t.cl/123"}
SHIPPING_COMPANIES == {"", "chilexpress", "starken"}

RequiredMessage == "El número de seguimiento es requerido"

\* The order PedidoDetalle holds, null before the first answer.
DetailOrder == IF fetchedOrders = << >> THEN Null ELSE fetchedOrders[1]

\* PedidoDetalle renders the form: it is not loading, shows no error, and
\* its order is not fulfilled.
FormShown ==
    /\ page = "pedido"
    /\ ~loading
    /\ error = Null
    /\ DetailOrder # Null
    /\ DetailOrder.fulfillmentStatus # Str("fulfilled")

\* The state of a form that has just been mounted.
FormMounts ==
    /\ trackingNumber' = ""
    /\ trackingUrl' = ""
    /\ trackingCompany' = ""
    /\ notifyCustomer' = TRUE
    /\ formStatus' = "idle"
    /\ errorMessage' = ""

\* The object handleSubmit hands to fulfillOrder.
trackingData ==
    Obj([trackingNumber |-> Str(trim(trackingNumber)),
         trackingUrl |-> Or(Str(trim(trackingUrl)), Undefined),
         trackingCompany |-> Or(Str(trackingCompany), Undefined),
         notifyCustomer |-> Bool(notifyCustomer)])

\* The fulfillment the endpoint posts to Shopify for a request body.
fulfillmentData(body) ==
    Obj([tracking_info |-> Obj([number |-> Prop(body, "trackingNumber"),
                                url |-> Prop(body, "trackingUrl"),
                                company |-> Prop(body, "trackingCompany")]),
         notify_customer |-> Bool(TRUE)])

\* fetchOrder of PedidoDetalle up to its await.
PedidoDetalle_fetchOrder ==
    /\ loading' = TRUE
    /\ error' = Null
    /\ fetches' = Append(fetches, NoResponse)

\* The server answers GET /api/orders/:id with the order as the source has
\* it now.
ServerReturnsOrder(k) ==
    /\ page = "pedido"
    /\ fetches[k] = NoResponse
    /\ fetches' = [fetches EXCEPT
                      ![k] = OkResponse(SourceOrder(formOrderId, source[formOrderId]))]
    /\ UNCHANGED <<page, source, fetchedOrders, loading, refreshing, error, searchQuery,
                   fulfillmentFilter, dateFilter, sortOrder, sortBy, selectedOrders,
                   requestedLabels, storeVars, bulkVars, labelVars, ruleVars, editVars, otherVars>>

\* fetchOrder after its await.  The form is mounted anew when the page
\* leaves its loading view.
PedidoDetalle_fetchOrderResumes(k) ==
    /\ page = "pedido"
    /\ fetches[k] # NoResponse
    /\ IF fetches[k].t = "ok"
       THEN fetchedOrders' = << fetches[k].data >> /\ UNCHANGED error
       ELSE error' = Str(fetches[k].message) /\ UNCHANGED fetchedOrders
    /\ loading' = FALSE
    /\ fetches' = RemoveAt(fetches, k)
    /\ FormMounts
    /\ UNCHANGED <<page, source, refreshing, searchQuery, fulfillmentFilter, dateFilter,
                   sortOrder, sortBy, selectedOrders, requestedLabels, storeVars, bulkVars,
                   labelVars, ruleVars, editVars, editedCount, latestFetch, dashVars,
                   fulfillRequest, shopifyFulfillment, formOrderId>>

\* Reintentar of the error view.
PedidoDetalleRetry ==
    /\ page = "pedido"
    /\ ~loading
    /\ error # Null \/ DetailOrder = Null
    /\ fetches = << >>
    /\ PedidoDetalle_fetchOrder
    /\ UNCHANGED <<page, source, fetchedOrders, refreshing, searchQuery, fulfillmentFilter,
                   dateFilter, sortOrder, sortBy, selectedOrders, requestedLabels, storeVars,
                   bulkVars, labelVars, ruleVars, editVars, otherVars>>

\* The inputs of the form, disabled while the request is in flight.
FormEditable == FormShown /\ formStatus \in {"idle", "error"}

setTrackingNumber(value) ==
    /\ FormEditable
    /\ trackingNumber' = value
    /\ UNCHANGED <<listVars, storeVars, bulkVars, labelVars, ruleVars, editVars, editedCount,
                   latestFetch, dashVars, notifyCustomer, formStatus, errorMessage,
                   fulfillRequest, shopifyFulfillment, trackingUrl, trackingCompany,
                   formOrderId>>

setTrackingUrl(value) ==
    /\ FormEditable
    /\ trackingUrl' = value
    /\ UNCHANGED <<listVars, storeVars, bulkVars, labelVars, ruleVars, editVars, editedCount,
                   latestFetch, dashVars, notifyCustomer, formStatus, errorMessage,
                   fulfillRequest, shopifyFulfillment, trackingNumber, trackingCompany,
                   formOrderId>>

setTrackingCompany(value) ==
    /\ FormEditable
    /\ trackingCompany' = value
    /\ UNCHANGED <<listVars, storeVars, bulkVars, labelVars, ruleVars, editVars, editedCount,
                   latestFetch, dashVars, notifyCustomer, formStatus, errorMessage,
                   fulfillRequest, shopifyFulfillment, trackingNumber, trackingUrl,
                   formOrderId>>

setNotifyCustomer(checked) ==
    /\ FormEditable
    /\ notifyCustomer' = checked
    /\ UNCHANGED <<listVars, storeVars, bulkVars, labelVars, ruleVars, editVars, editedCount,
                   latestFetch, dashVars, trackingNumber, formStatus, errorMessage,
                   fulfillRequest, shopifyFulfillment, trackingUrl, trackingCompany,
                   formOrderId>>

\* handleSubmit up to its await.
FulfillmentForm_handleSubmit ==
    /\ FormEditable
    /\ IF trim(trackingNumber) = ""
       THEN /\ errorMessage' = RequiredMessage
            /\ formStatus' = "error"
            /\ UNCHANGED fulfillRequest
       ELSE /\ formStatus' = "loading"
            /\ errorMessage' = ""
            /\ fulfillRequest' = [t |-> "sent", body |-> JSONstringify(trackingData)]
    /\ UNCHANGED <<listVars, storeVars, bulkVars, labelVars, ruleVars, editVars, editedCount,
                   latestFetch, dashVars, trackingNumber, notifyCustomer, shopifyFulfillment,
                   trackingUrl, trackingCompany, formOrderId>>

\* POST /api/orders/:id/fulfill: the server posts the fulfillment to
\* Shopify and answers.
ServerCreatesFulfillment ==
    /\ fulfillRequest.t = "sent"
    /\ shopifyFulfillment' = Serialize(fulfillmentData(JSONparse(fulfillRequest.body)))
    /\ source' = [source EXCEPT ![formOrderId] = Str("fulfilled")]
    /\ fulfillRequest' = OkResponse(Obj([success |-> Bool(TRUE),
                                         message |-> Str("Pedido marcado como enviado")]))
    /\ UNCHANGED <<page, fetchedOrders, loading, refreshing, error, fetches, searchQuery,
                   fulfillmentFilter, dateFilter, sortOrder, sortBy, selectedOrders,
                   requestedLabels, storeVars, bulkVars, labelVars, ruleVars, editVars,
                   editedCount, latestFetch, dashVars, trackingNumber, notifyCustomer,
                   formStatus, errorMessage, trackingUrl, trackingCompany, formOrderId>>

\* Shopify refuses and the server answers 500, or the request gets no
\* response: handleApiError throws.
FulfillOrderFails(axiosError) ==
    /\ fulfillRequest.t = "sent"
    /\ fulfillRequest' = ErrorResponse(handleApiError(axiosError))
    /\ UNCHANGED <<listVars, storeVars, bulkVars, labelVars, ruleVars, editVars, editedCount,
                   latestFetch, dashVars, trackingNumber, notifyCustomer, formStatus,
                   errorMessage, shopifyFulfillment, trackingUrl, trackingCompany,
                   formOrderId>>

FulfillErrors ==
    {AxiosRequestError,
     AxiosResponseError(500, ServerErrorBody("Error al marcar pedido como enviado",
                                             ShopifyErrorMessage))}

\* handleSubmit after its await.
FulfillmentForm_handleSubmitResumes ==
    /\ fulfillRequest.t \in {"ok", "error"}
    /\ IF fulfillRequest.t = "ok"
       THEN formStatus' = "success" /\ UNCHANGED errorMessage
       ELSE errorMessage' = fulfillRequest.message /\ formStatus' = "error"
    /\ fulfillRequest' = Null
    /\ UNCHANGED <<listVars, storeVars, bulkVars, labelVars, ruleVars, editVars, editedCount,
                   latestFetch, dashVars, trackingNumber, notifyCustomer, shopifyFulfillment,
                   trackingUrl, trackingCompany, formOrderId>>

\* onSuccess, 1500 ms after the success: PedidoDetalle fetches its order
\* again and shows its loading view, which unmounts the form.
handleFulfillmentSuccess ==
    /\ page = "pedido"
    /\ formStatus = "success"
    /\ PedidoDetalle_fetchOrder
    /\ FormMounts
    /\ UNCHANGED <<page, source, fetchedOrders, refreshing, searchQuery, fulfillmentFilter,
                   dateFilter, sortOrder, sortBy, selectedOrders, requestedLabels, storeVars,
                   bulkVars, labelVars, ruleVars, editVars, editedCount, latestFetch, dashVars,
                   fulfillRequest, shopifyFulfillment, formOrderId>>

\* PedidoDetalle has just been mounted for an order that is not fulfilled.
InitForm ==
    /\ page = "pedido"
    /\ source = InitialSource
    /\ fetchedOrders = << >>
    /\ loading = TRUE
    /\ refreshing = FALSE
    /\ error = Null
    /\ fetches = << NoResponse >>
    /\ latestFetch = Null
    /\ searchQuery = ""
    /\ fulfillmentFilter = "all"
    /\ dateFilter = "all"
    /\ sortOrder = "desc"
    /\ sortBy = "purchase"
    /\ selectedOrders = {}
    /\ requestedLabels = ""
    /\ StoreIdle
    /\ BulkIdle
    /\ RulesIdle
    /\ EditIdle
    /\ LabelsIdle
    /\ editedCount = 0
    /\ products = << >>
    /\ customers = << >>
    /\ dashFetch = Null
    /\ trackingNumber = ""
    /\ trackingUrl = ""
    /\ trackingCompany = ""
    /\ notifyCustomer = TRUE
    /\ formStatus = "idle"
    /\ errorMessage = ""
    /\ fulfillRequest = Null
    /\ shopifyFulfillment = Null
    /\ formOrderId \in OrderIds

NextForm ==
    \/ \E k \in 1..Len(fetches) : ServerReturnsOrder(k)
    \/ \E k \in 1..Len(fetches) : GetOrdersFails(k)
    \/ \E k \in 1..Len(fetches) : PedidoDetalle_fetchOrderResumes(k)
    \/ PedidoDetalleRetry
    \/ \E value \in TypedTrackingNumbers : setTrackingNumber(value)
    \/ \E value \in TypedTrackingUrls : setTrackingUrl(value)
    \/ \E value \in SHIPPING_COMPANIES : setTrackingCompany(value)
    \/ \E checked \in BOOLEAN : setNotifyCustomer(checked)
    \/ FulfillmentForm_handleSubmit
    \/ ServerCreatesFulfillment
    \/ \E axiosError \in FulfillErrors : FulfillOrderFails(axiosError)
    \/ FulfillmentForm_handleSubmitResumes
    \/ handleFulfillmentSuccess

SpecForm == InitForm /\ [][NextForm]_vars

\* The server posts a fulfillment to Shopify for the request of the form.
FulfillmentPosted ==
    /\ fulfillRequest.t = "sent"
    /\ shopifyFulfillment' # shopifyFulfillment

\* The form shows its success view, whose text says that the customer has
\* been notified of the shipment.
SuccessClaimsNotified == formStatus = "success"

\* C30: the fulfillment the server posts to Shopify asks for a customer
\* notification exactly when 'notify customer' was checked in the form that
\* was submitted, and the success view says the customer was notified only
\* when a notification was requested.
C30_NotifyChoiceHonoured ==
    [][/\ FulfillmentPosted =>
              Prop(shopifyFulfillment', "notify_customer")
                  = Prop(JSONparse(fulfillRequest.body), "notifyCustomer")
       /\ SuccessClaimsNotified' => notifyCustomer']_vars

(***************************************************************************)
(* Claims about bulk fulfillment.                                          *)
(***************************************************************************)
Unsettled == {"sent", "applied", "refused"}

\* C2: a bulk-fulfill operation reports its outcome and clears its
\* in-progress flag only after every request of the batch has resolved or
\* rejected: no request of the batch is in flight once the outcome is
\* reported.
C2_ReportsAfterAllSettled ==
    (outcome # "none" \/ ~isBulkFulfilling) =>
        \A id \in OrderIds : requests[id] \notin Unsettled

\* C3: if a request of a bulk-fulfill batch rejects, the batch is reported
\* as failed: the step that delivers a rejection neither closes the dialog,
\* nor clears the selection, nor refreshes the list, success is reported only
\* with every request of the batch resolved, and what the server applied
\* stays applied at the source.
C3_RejectedMeansFailed ==
    (\E id \in OrderIds : requests[id] = "rejected") => outcome = "failed"

C3_AppliedStaysApplied ==
    \A id \in OrderIds : requests[id] \in {"applied", "resolved"} => source[id] = Str("fulfilled")

C3_NoSuccessPathOnRejection ==
    (\E id \in OrderIds : requests'[id] = "rejected" /\ requests[id] # "rejected") =>
        /\ isBulkModalOpen' = isBulkModalOpen
        /\ selectedOrders' = selectedOrders
        /\ fetches' = fetches
        /\ refreshing' = refreshing
        /\ outcome' = "failed"
        /\ ~isBulkFulfilling'

C3_SuccessOnlyWhenAllResolved ==
    (outcome' = "success" /\ (outcome # "success" \/ requests' # requests)) =>
        \A id \in OrderIds : requests'[id] \in {"none", "resolved"}

C3_NothingUndone ==
    \A id \in OrderIds : source[id] = Str("fulfilled") => source'[id] = Str("fulfilled")

C3_FailedBatchIsFailed ==
    /\ [](C3_RejectedMeansFailed /\ C3_AppliedStaysApplied)
    /\ [][C3_NoSuccessPathOnRejection /\ C3_SuccessOnlyWhenAllResolved /\ C3_NothingUndone]_vars

\* One request of the batch rejected, another resolved: the batch is reported
\* as failed with the dialog open and the selection kept.
C3_Witness ==
    \E a, b \in OrderIds :
        /\ requests[a] = "rejected"
        /\ requests[b] = "resolved"
        /\ source[b] = Str("fulfilled")
        /\ outcome = "failed"
        /\ isBulkModalOpen
        /\ {a, b} \subseteq selectedOrders

\* The step is the submit of the bulk dialog.
BulkSubmitted ==
    /\ isBulkModalOpen
    /\ ~isBulkFulfilling
    /\ isBulkFulfilling' \/ (selectedOrders # {} /\ selectedOrders' = {})

\* C17: when the operator confirms a bulk fulfill, one request is issued for
\* each order of the selection set, none is skipped, and every request of
\* the batch is issued before any of them is answered.
C17_OneRequestPerSelected ==
    [][BulkSubmitted => {id \in OrderIds : requests'[id] = "sent"} = selectedOrders]_vars

\* The fulfill requests of an order that no answer has settled: the one of
\* the latest batch, and the one an earlier batch left at the server.
InFlight(id) ==
    (IF requests[id] \in Unsettled THEN 1 ELSE 0) + (IF id \in orphans THEN 1 ELSE 0)

\* The confirm button of the bulk dialog is disabled.
ConfirmDisabled == isBulkFulfilling

\* C27: from the orders list at most one fulfillment request per order is in
\* flight at any time, and the confirm control stays disabled while a request
\* of a bulk batch is unsettled.
C27_OneRequestInFlight ==
    /\ \A id \in OrderIds : InFlight(id) <= 1
    /\ (\E id \in OrderIds : requests[id] \in Unsettled) => ConfirmDisabled

\* C28: on the orders list, once every fetch issued has settled, the orders
\* shown are those the most recently issued fetch returned, in whatever order
\* the answers of overlapping fetches arrived.
C28_LatestFetchShown ==
    (page = "pedidos" /\ fetches = << >> /\ latestFetch.t = "ok") =>
        fetchedOrders = latestFetch.data

(***************************************************************************)
(* Claims about the selection of the list pages.                           *)
(***************************************************************************)
\* C4: on the orders list and on the shipping-preparation list, whatever the
\* operator toggled, filtered, searched or refreshed, every selected
\* identifier is the identifier of a currently filtered row.
C4_SelectionWithinFiltered ==
    page \in ListPages => selectedOrders \subseteq Ids(filteredOrders)

(***************************************************************************)
(* Claims about the sheets of labels.                                      *)
(***************************************************************************)
RECURSIVE Flatten(_)
Flatten(pages) == IF pages = << >> THEN << >> ELSE Head(pages) \o Flatten(Tail(pages))

\* C5: L orders are laid out on ceil(L/12) pages; the pages in order,
\* concatenated, are the orders in their order; every page holds 1 to 12
\* entries, every page but the last holds 12, and no entry is a placeholder.
C5_LabelLayout ==
    LET L == Len(labelOrders)
    IN  /\ Len(printedPages) = (L + labelsPerPage - 1) \div labelsPerPage
        /\ Flatten(printedPages) = labelOrders
        /\ \A p \in 1..Len(printedPages) :
              /\ Len(printedPages[p]) >= 1
              /\ Len(printedPages[p]) <= labelsPerPage
              /\ p < Len(printedPages) => Len(printedPages[p]) = labelsPerPage
              /\ \A i \in 1..Len(printedPages[p]) : printedPages[p][i] # Null

\* More than two full pages of orders, with a last page that is not full.
C5_Witness ==
    /\ Len(labelOrders) > 2 * labelsPerPage
    /\ Len(printedPages) = 3
    /\ Len(printedPages[3]) < labelsPerPage

(***************************************************************************)
(* Claims about the Address Override Store.                                *)
(***************************************************************************)
\* The canonical addresses resolve can be given, null included.
Canonicals == {toEditedAddress(a) : a \in ShippingAddresses}

StoredText(id) == getItem(localStorage, StorageKey(id))

\* C1: after save(id, A1, O1) and save(id, A2, O2) with no revert in between,
\* get(id).originalAddress is O1, the snapshot of the first save, and it stays
\* O1 under any further saves on that id.
C1_SnapshotIsFirstWrite ==
    \A id \in OrderIds :
        lastSaved[id] # Null =>
            SameValue(Prop(getStoredEdit(localStorage, id), "originalAddress"),
                      firstSnapshot[id])

\* C6: resolve(id, C) is the address given to the most recent save on id while
\* an override written by save exists, and is C itself, null included, when
\* nothing is stored for id.
C6_ResolveEditedElseCanonical ==
    \A id \in OrderIds, C \in Canonicals :
        /\ lastSaved[id] # Null =>
              SameValue(getAddress(localStorage, id, C), lastSaved[id])
        /\ StorageKey(id) \notin DOMAIN localStorage =>
              getAddress(localStorage, id, C) = C

\* A save of EditedB, whose stored form differs from the object saved, is
\* resolved for one order while another order, reverted, resolves to null.
C6_Witness ==
    \E id \in OrderIds, other \in OrderIds :
        /\ lastSaved[id] = EditedB
        /\ getAddress(localStorage, id, Null) # EditedB
        /\ lastOp[other] = "save-revert"
        /\ getAddress(localStorage, other, Null) = Null

\* C7: after saves on id and then revert(id), get(id) is absent, has(id) is
\* false and resolve(id, C) is C for every canonical address C.
C7_RevertRoundTrip ==
    \A id \in OrderIds :
        lastOp[id] \in {"revert", "save-revert"} =>
            /\ getStoredEdit(localStorage, id) = Null
            /\ ~hasEditedAddress(localStorage, id)
            /\ \A C \in Canonicals : getAddress(localStorage, id, C) = C

C7_Witness ==
    \E id \in OrderIds : lastOp[id] = "save-revert" /\ clock = MaxTime

\* C8: a stored value that JSON.parse rejects reads as no override: get(id) is
\* null and raises nothing, resolve(id, C) is C, no view of the order fails;
\* a save on id replaces it with a well-formed record and a revert removes it.
Unparseable(id) ==
    StorageKey(id) \in DOMAIN localStorage /\ IsThrow(JSONparse(StoredText(id)))

C8_CorruptReadsAbsent ==
    \A id \in OrderIds :
        Unparseable(id) =>
            /\ getStoredEdit(localStorage, id) = Null
            /\ \A C \in Canonicals : getAddress(localStorage, id, C) = C
            /\ ~IsThrow(AddressEditModal(localStorage, orders[id]))
            /\ RenderedLabel(localStorage, orders[id]).recipient
                  = LabelDisplayAddress([k \in {} |-> Null], orders[id])
            /\ PreparacionRow(localStorage, orders[id]).address
                  = toEditedAddress(orders[id].shippingAddress)

C8_CorruptReplacedOrRemoved ==
    \A id \in OrderIds :
        (Unparseable(id) /\ lastOp'[id] # lastOp[id]) =>
            \/ /\ lastOp'[id] = "save"
               /\ LET record == getStoredEdit(localStorage', id)
                  IN  /\ SameValue(Prop(record, "address"), lastSaved'[id])
                      /\ Prop(record, "timestamp") = Str(toISOString(clock))
                      /\ Prop(record, "originalAddress") \in OriginalAddresses
            \/ /\ lastOp'[id] = "revert"
               /\ StorageKey(id) \notin DOMAIN localStorage'

C8_CorruptTreatedAsAbsent ==
    [](C8_CorruptReadsAbsent) /\ [][C8_CorruptReplacedOrRemoved]_vars

C8_Witness ==
    \E id \in OrderIds :
        /\ StoredText(id) \in CorruptTexts
        /\ hasEditedAddress(localStorage, id)
        /\ orders[id].shippingAddress # Null

\* C9: a stored value that is JSON but no override record (JSON null, an
\* object without an address field) never makes get, resolve, the label or
\* the edit dialog fail, and never makes the resolved address a missing value
\* where the order has a canonical address.
ForeignSchema(id) ==
    /\ StorageKey(id) \in DOMAIN localStorage
    /\ ~IsThrow(JSONparse(StoredText(id)))
    /\ lastSaved[id] = Null

C9_ForeignSchemaTolerated ==
    \A id \in OrderIds :
        ForeignSchema(id) =>
            LET C == toEditedAddress(orders[id].shippingAddress)
            IN  /\ ~IsThrow(getStoredEdit(localStorage, id))
                /\ ~IsThrow(getAddress(localStorage, id, C))
                /\ ~IsThrow(AddressEditModal(localStorage, orders[id]))
                /\ C # Null => Truthy(getAddress(localStorage, id, C))
                /\ C # Null => RenderedLabel(localStorage, orders[id]).recipient # Null

\* C10: whenever the address a row, the dialog or a rendered label shows is
\* taken from an override, that row, dialog or label carries the
\* edited/modified flag.
C10_OverrideIsFlagged ==
    \A id \in OrderIds :
        lastSaved[id] # Null =>
            /\ PreparacionRow(localStorage, orders[id]).modificadoBadge
            /\ AddressEditModal(localStorage, orders[id]).t = "rendered" =>
                  AddressEditModal(localStorage, orders[id]).modificadoBadge
            /\ RenderedLabel(localStorage, orders[id]).editedBadge

\* The canonicalised shipping address of an order, with the customer's name
\* where the address has neither first nor last name.
CanonicalWithName(order) ==
    LET canonical == toEditedAddress(order.shippingAddress)
    IN  IF /\ canonical.p.firstName = Str("")
           /\ canonical.p.lastName = Str("")
           /\ order.customer # Null
        THEN Obj([canonical.p EXCEPT !.firstName = order.customer.p.firstName,
                                     !.lastName = order.customer.p.lastName])
        ELSE canonical

\* C18: the recipient of a rendered label is the edited address of the
\* order's override when a save has written one; with nothing stored it is
\* the canonicalised shipping address, with the customer's name substituted
\* when the address has no name and the order has a customer; and with
\* nothing stored and no shipping address the label carries the no-address
\* marker.
C18_LabelRecipient ==
    \A id \in OrderIds :
        LET label == RenderedLabel(localStorage, orders[id])
            stored == StorageKey(id) \in DOMAIN localStorage
        IN  /\ lastSaved[id] # Null =>
                  SameValue(label.recipient, lastSaved[id]) /\ label.marker = ""
            /\ (~stored /\ orders[id].shippingAddress # Null) =>
                  label.recipient = CanonicalWithName(orders[id]) /\ label.marker = ""
            /\ (~stored /\ orders[id].shippingAddress = Null) =>
                  label.recipient = Null /\ label.marker = "Sin direccion"

\* One order with an override; the other, after a revert, with nothing
\* stored, an address without a name and a customer whose name the label takes.
C18_Witness ==
    \E id \in OrderIds, other \in OrderIds :
        /\ lastSaved[id] = EditedA
        /\ lastOp[other] = "save-revert"
        /\ orders[other].shippingAddress = ShopifyNoName
        /\ orders[other].customer = CustomerLuz
        /\ RenderedLabel(localStorage, orders[other]).recipient.p.firstName = Str("Luz")

\* The entries of listAll() for an order.
ListedFor(id) ==
    LET all == getAllEditedAddresses(localStorage)
    IN  {i \in 1..Len(all) : all[i].orderId = ToString(id)}

\* C23: an order id appears in listAll() exactly when has(id) is true, for
\* any content of the storage and after any saves and reverts; it appears
\* once, its entry carries the record get(id) returns, and no entry comes
\* from a key outside the override namespace.
C23_ListAllEnumeratesOverrides ==
    LET all == getAllEditedAddresses(localStorage)
    IN  /\ \A id \in OrderIds :
              /\ ListedFor(id) # {} <=> hasEditedAddress(localStorage, id)
              /\ Cardinality(ListedFor(id)) <= 1
              /\ \A i \in ListedFor(id) : all[i].data = getStoredEdit(localStorage, id)
        /\ \A i \in 1..Len(all) : \E id \in OrderIds : all[i].orderId = ToString(id)

\* What the store answers about one order: get, has and resolve.
StoreView(ls, id) ==
    [get |-> getStoredEdit(ls, id),
     has |-> hasEditedAddress(ls, id),
     resolve |-> [C \in Canonicals |-> getAddress(ls, id, C)]]

DistinctKeys == \A a \in OrderIds, b \in OrderIds : a # b => StorageKey(a) # StorageKey(b)

OthersUntouched(id) ==
    \A other \in OrderIds \ {id} :
        StoreView(localStorage', other) = StoreView(localStorage, other)

SaveOrRevertOf(id) ==
    \/ \E a \in EditedAddresses, o \in OriginalAddresses : Save(id, a, o)
    \/ Revert(id)

\* C24: a save or a revert on an order leaves get, has and resolve of every
\* other order as they were, and two distinct order ids never share a
\* storage key.
C24_OneRecordPerOrder ==
    [](DistinctKeys) /\ [][\A id \in OrderIds : SaveOrRevertOf(id) => OthersUntouched(id)]_vars

\* An order was saved and reverted while the other order keeps the override
\* saved before, written at an earlier time.
C24_Witness ==
    \E id \in OrderIds, other \in OrderIds :
        /\ id # other
        /\ lastOp[id] = "save-revert"
        /\ ~hasEditedAddress(localStorage, id)
        /\ lastSaved[other] = EditedA
        /\ Prop(getStoredEdit(localStorage, other), "timestamp") = Str(toISOString(1))
        /\ clock = MaxTime

\* C25: for every content stored under an order's key, has(id) is true
\* exactly when get(id) returns a record, so the row of the order carries
\* the edited flag exactly when the address it shows comes from an override.
C25_FlaggedIffOverride ==
    \A id \in OrderIds :
        LET record == getStoredEdit(localStorage, id)
            row == PreparacionRow(localStorage, orders[id])
        IN  /\ hasEditedAddress(localStorage, id) <=> Truthy(record)
            /\ row.modificadoBadge <=> (Truthy(record) /\ row.address = Prop(record, "address"))

\* The message the server sent with an answer in error, and the generic
\* message when the call got no response.
ServerMessageOf(answer) ==
    IF "body" \in DOMAIN answer
    THEN Prop(answer.body, "message")
    ELSE Str(NetworkErrorMessage)

\* A list page takes up the answer in error of fetch k.
FetchFailureTaken(k) ==
    /\ fetches[k].t = "error"
    /\ page' = page
    /\ Len(fetches') = Len(fetches) - 1
    /\ fetches' = RemoveAt(fetches, k)

\* A fulfill request of the batch that the server answered with 500 makes
\* the batch fail.
BulkFailureTaken(id) ==
    /\ requests[id] = "refused"
    /\ requests'[id] = "rejected"
    /\ outcome = "none"
    /\ outcome' = "failed"

\* C22: when a fetch of a list page fails with an answer of the server that
\* carries a message, the error shown is that message verbatim, and when no
\* response was received it is the generic could-not-reach-server message;
\* when a fulfill request of a batch fails with an answer of the server, what
\* the operator is told is the message of that answer.
C22_ServerMessageSurfaced ==
    [][/\ \A k \in 1..Len(fetches) :
              FetchFailureTaken(k) => error' = ServerMessageOf(fetches[k])
       /\ \A id \in OrderIds :
              BulkFailureTaken(id) => BulkFailureAlert = ShopifyErrorMessage]_vars

\* The catch block of fetchData of the dashboard runs.
DashboardFailureTaken ==
    /\ page = "dashboard"
    /\ page' = page
    /\ dashFetch # Null
    /\ dashFetch' = Null
    /\ error' # Null

\* The 500 of a fulfill request reaches the page.
FulfillFailureTaken(id) ==
    /\ requests[id] = "refused"
    /\ requests'[id] = "rejected"

\* What a failure leaves as it was: the data shown, the stored overrides,
\* and the state of everything that is not the failed operation.
PriorStateKept ==
    UNCHANGED <<fetchedOrders, products, customers, localStorage, storeVars, source, page,
                searchQuery, fulfillmentFilter, dateFilter, sortOrder, sortBy, selectedOrders,
                requestedLabels, editedCount, labelVars, ruleVars, editVars, formVars,
                isBulkModalOpen, trackingPayload, orphans, requestBodies>>

\* C21: a step in which a fetch of the orders list, of the preparation list
\* or of the dashboard fails, or in which a fulfill request fails, leaves
\* the fetched orders, the products and customers of the dashboard and all
\* stored overrides as they were; it changes only the error, the loading
\* flags and the bookkeeping of the failed operation.
C21_FailureKeepsPriorState ==
    [][/\ \A k \in 1..Len(fetches) :
              FetchFailureTaken(k) =>
                  /\ PriorStateKept
                  /\ UNCHANGED <<dashFetch, isBulkFulfilling, requests, outcome>>
                  /\ error' # Null /\ ~loading' /\ ~refreshing'
       /\ DashboardFailureTaken =>
              /\ PriorStateKept
              /\ UNCHANGED <<fetches, refreshing, isBulkFulfilling, requests, outcome>>
              /\ ~loading'
       /\ \A id \in OrderIds :
              FulfillFailureTaken(id) =>
                  /\ PriorStateKept
                  /\ UNCHANGED <<dashFetch, fetches, error, loading, refreshing>>
                  /\ \A other \in OrderIds \ {id} : requests'[other] = requests[other]
                  /\ ~isBulkFulfilling']_vars

\* A refresh of the dashboard has failed with the orders, products and
\* customers of the earlier fetch shown and an override stored.
C21_Witness ==
    /\ page = "dashboard"
    /\ error = Str("Error al obtener productos")
    /\ ~loading
    /\ dashFetch = Null
    /\ fetchedOrders # << >>
    /\ products = ProductsResponse
    /\ customers = CustomersResponse
    /\ hasEditedAddress(localStorage, 1)

====
